---------------------------- MODULE Spec2Model ----------------------------
(***************************************************************************)
(* Model of the destination classifier and the recommendation engine of    *)
(* the trawell API backend (src/travel_agent.py, src/main.py).             *)
(*                                                                         *)
(* Strings are sequences of one-character strings, so that trimming,       *)
(* lower-casing, substring tests and the regular expressions the code      *)
(* hands to MongoDB are computed and not assumed.  Ratings are in tenths   *)
(* (40 is 4.0), confidences in tenths (9 is 0.9), weights and sub-scores   *)
(* in hundredths.                                                          *)
(***************************************************************************)
EXTENDS Integers, Sequences, FiniteSets, TLC

VARIABLES catalog, trip, call, result, seen

vars == <<catalog, trip, call, result, seen>>

(***************************************************************************)
(* Strings                                                                 *)
(***************************************************************************)

\* Python's None where a string or a record is expected.
None == <<"<None>">>

\* str.lower() on one character.
LowerChar(c) ==
  CASE c = "A" -> "a"
    [] c = "B" -> "b"
    [] c = "C" -> "c"
    [] c = "R" -> "r"
    [] c = "T" -> "t"
    [] c = "W" -> "w"
    [] OTHER -> c

\* str.lower()
Lower(s) == [i \in 1..Len(s) |-> LowerChar(s[i])]

RECURSIVE LStrip(_)
LStrip(s) == IF s # <<>> /\ Head(s) = " " THEN LStrip(Tail(s)) ELSE s

RECURSIVE RStrip(_)
RStrip(s) ==
  IF s # <<>> /\ s[Len(s)] = " " THEN RStrip(SubSeq(s, 1, Len(s) - 1)) ELSE s

\* str.strip()
Strip(s) == RStrip(LStrip(s))

\* Python's `p in s` on strings.
Contains(s, p) ==
  \E i \in 1..(Len(s) + 1) :
     /\ i + Len(p) - 1 <= Len(s)
     /\ SubSeq(s, i, i + Len(p) - 1) = p

\* str.split(): the whitespace-delimited words, as a set (the code only asks
\* whether any word occurs in a place name).
Words(s) ==
  { SubSeq(s, i, j) : <<i, j>> \in
      { ij \in (1..Len(s)) \X (1..Len(s)) :
          /\ ij[1] <= ij[2]
          /\ \A k \in ij[1]..ij[2] : s[k] # " "
          /\ (ij[1] = 1 \/ s[ij[1] - 1] = " ")
          /\ (ij[2] = Len(s) \/ s[ij[2] + 1] = " ") } }

(***************************************************************************)
(* Regular expressions, as MongoDB evaluates {"$regex": p, "$options":"i"} *)
(* for a pattern built from the query without escaping: "." matches any    *)
(* character, an unbalanced "(" makes the pattern invalid (the query       *)
(* raises OperationFailure), every other character matches itself,         *)
(* case-insensitively.                                                     *)
(***************************************************************************)

RegexValid(p) == \A i \in 1..Len(p) : p[i] # "("

RegexCharMatch(pc, c) == pc = "." \/ LowerChar(pc) = LowerChar(c)

RegexMatchAt(p, s, i) ==
  /\ i + Len(p) - 1 <= Len(s)
  /\ \A k \in 1..Len(p) : RegexCharMatch(p[k], s[i + k - 1])

\* ^p$
RegexExact(p, s) == Len(p) = Len(s) /\ RegexMatchAt(p, s, 1)

\* ^p
RegexPrefix(p, s) == RegexMatchAt(p, s, 1)

\* p
RegexSearch(p, s) == \E i \in 1..(Len(s) + 1) : RegexMatchAt(p, s, i)

(***************************************************************************)
(* The cities collection: a sequence of documents in natural order.        *)
(***************************************************************************)

\* find_one: the index of the first document satisfying the filter, 0 for None.
FirstIndex(S) == IF S = {} THEN 0 ELSE CHOOSE i \in S : \A j \in S : i <= j

\* The elements of a list.
Range(list) == { list[i] : i \in 1..Len(list) }


\* The key is absent from the document.
Missing == -1

\* A `type` that is a JSON list, as src/data_extraction.py asks the LLM for
\* and _get_landmark_recommendations reads it (place.get("type", [])).
ListType == "<list>"

\* A word-valued key that is absent from its document, and one that holds
\* JSON null (Python's None).
AbsentWord == "<absent>"
NullWord == "<null>"

\* An optional number: <<>> is None or a missing key, <<n>> is n.
NoNumber == <<>>

\* A place of a city document (the fields the engine reads): rating and cost
\* are numbers (rating in tenths) or Missing, tags a set of words, type a
\* word, ListType or AbsentWord, best_time_to_visit a string.
Place(name, rating) ==
  [name |-> name, rating |-> rating, tags |-> {}, type |-> ListType,
   best_time_to_visit |-> <<>>, cost |-> NoNumber]

\* A city document.
Doc(city, state, places, rating, tags, type) ==
  [city |-> city, state |-> state, places |-> places,
   city_rating |-> rating, city_tags |-> tags, city_type |-> type]

(***************************************************************************)
(* Catalog queries that can be unavailable: the call sites of              *)
(* cities_collection.find / find_one.  A call's `fails` is the set of      *)
(* sites at which the collection raises during that call.                  *)
(***************************************************************************)

ClassifySites ==
  {"city_exact", "city_prefix", "city_partial",
   "state_exact", "state_partial", "landmark_scan"}

(***************************************************************************)
(* The destination input classifier                                        *)
(***************************************************************************)

\* An exception leaving a function, in place of the record it returns.
Raised == [raised |-> TRUE]

\* An exception leaving a lookup, in place of its Optional[Dict] (<<>> is
\* None, <<d>> is d).
Raise == <<Raised>>

CityHit(i) ==
  <<[state |-> Lower(catalog[i].state), city |-> Lower(catalog[i].city)]>>

\* The try block of _find_city_in_mongodb: three find_one queries, exact,
\* prefix and partial.  A query raises when the collection is unavailable
\* or the pattern is invalid.  <<>> is None.
FindCityQueries(city_name, fails) ==
  LET exact   == FirstIndex({i \in 1..Len(catalog) :
                               RegexExact(city_name, catalog[i].city)})
      prefix  == FirstIndex({i \in 1..Len(catalog) :
                               RegexPrefix(city_name, catalog[i].city)})
      partial == FirstIndex({i \in 1..Len(catalog) :
                               RegexSearch(city_name, catalog[i].city)})
  IN  IF "city_exact" \in fails \/ ~RegexValid(city_name) THEN Raise
      ELSE IF exact # 0 THEN CityHit(exact)
      ELSE IF "city_prefix" \in fails THEN Raise
      ELSE IF prefix # 0 THEN CityHit(prefix)
      ELSE IF "city_partial" \in fails THEN Raise
      ELSE IF partial # 0 THEN CityHit(partial)
      ELSE <<>>

\* TravelAgent._find_city_in_mongodb: `except Exception: return None`.
FindCityInMongodb(city_name, fails) ==
  LET found == FindCityQueries(city_name, fails)
  IN  IF found = Raise THEN <<>> ELSE found

\* The try block of _find_state_in_mongodb.
FindStateQueries(state_name, fails) ==
  LET exact   == FirstIndex({i \in 1..Len(catalog) :
                               RegexExact(state_name, catalog[i].state)})
      partial == FirstIndex({i \in 1..Len(catalog) :
                               RegexSearch(state_name, catalog[i].state)})
  IN  IF "state_exact" \in fails \/ ~RegexValid(state_name) THEN Raise
      ELSE IF exact # 0 THEN <<[state |-> Lower(catalog[exact].state)]>>
      ELSE IF "state_partial" \in fails THEN Raise
      ELSE IF partial # 0 THEN <<[state |-> Lower(catalog[partial].state)]>>
      ELSE <<>>

\* TravelAgent._find_state_in_mongodb: `except Exception: return None`.
FindStateInMongodb(state_name, fails) ==
  LET found == FindStateQueries(state_name, fails)
  IN  IF found = Raise THEN <<>> ELSE found

\* The test of one place name in _find_landmark_in_places.
LandmarkMatches(landmark_name, place_name) ==
  \/ Contains(place_name, landmark_name)
  \/ Contains(landmark_name, place_name)
  \/ \E word \in Words(landmark_name) : Contains(place_name, word)

\* A variant of the scan that keeps the last matching place.
FindLandmarkScan_LastMatch(landmark_name, fails) ==
  LET hits == { <<i, j>> \in
                  UNION { {i} \X (1..Len(catalog[i].places)) : i \in 1..Len(catalog) } :
                  LandmarkMatches(landmark_name, Lower(catalog[i].places[j].name)) }
  IN  IF "landmark_scan" \in fails THEN Raise
      ELSE IF hits = {} THEN <<>>
      ELSE LET h == CHOOSE x \in hits :
                      \A y \in hits : x[1] > y[1] \/ (x[1] = y[1] /\ x[2] >= y[2])
           IN  <<[state      |-> Lower(catalog[h[1]].state),
                  city       |-> Lower(catalog[h[1]].city),
                  landmark   |-> catalog[h[1]].places[h[2]].name,
                  place_data |-> catalog[h[1]].places[h[2]]]>>

\* The try block of _find_landmark_in_places: the first matching place,
\* cities in catalog order and places in document order.
FindLandmarkScan(landmark_name, fails) ==
  LET hits == { <<i, j>> \in
                  UNION { {i} \X (1..Len(catalog[i].places)) : i \in 1..Len(catalog) } :
                  LandmarkMatches(landmark_name, Lower(catalog[i].places[j].name)) }
  IN  IF "landmark_scan" \in fails THEN Raise
      ELSE IF hits = {} THEN <<>>
      ELSE LET h == CHOOSE x \in hits :
                      \A y \in hits : x[1] < y[1] \/ (x[1] = y[1] /\ x[2] <= y[2])
           IN  <<[state      |-> Lower(catalog[h[1]].state),
                  city       |-> Lower(catalog[h[1]].city),
                  landmark   |-> catalog[h[1]].places[h[2]].name,
                  place_data |-> catalog[h[1]].places[h[2]]]>>

\* _find_landmark_in_places without its except clause.
FindLandmarkInPlaces_NoExcept(landmark_name, fails) ==
  FindLandmarkScan(landmark_name, fails)

\* TravelAgent._find_landmark_in_places: `except Exception: return None`.
FindLandmarkInPlaces(landmark_name, fails) ==
  LET found == FindLandmarkScan(landmark_name, fails)
  IN  IF found = Raise THEN <<>> ELSE found

\* A variant of parse_destination_input whose landmark result names the
\* state only.
ParseDestinationInput_LandmarkWithoutCity(destination_input, fails) ==
  LET input_lower     == Lower(Strip(destination_input))
      city_result     == FindCityInMongodb(input_lower, fails)
      state_result    == FindStateInMongodb(input_lower, fails)
      landmark_result == FindLandmarkInPlaces(input_lower, fails)
  IN  IF city_result # <<>> THEN
        [input_type |-> "city", parsed_value |-> input_lower,
         state |-> city_result[1].state, city |-> city_result[1].city,
         landmark |-> None, confidence |-> 9]
      ELSE IF state_result # <<>> THEN
        [input_type |-> "state", parsed_value |-> input_lower,
         state |-> input_lower, city |-> None,
         landmark |-> None, confidence |-> 8]
      ELSE IF landmark_result # <<>> THEN
        [input_type |-> "landmark", parsed_value |-> input_lower,
         state |-> landmark_result[1].state, city |-> None,
         landmark |-> landmark_result[1].landmark, confidence |-> 7]
      ELSE
        [input_type |-> "state", parsed_value |-> input_lower,
         state |-> input_lower, city |-> None,
         landmark |-> None, confidence |-> 3]

\* TravelAgent.parse_destination_input.  It has no try block of its own: an
\* exception leaving a lookup would leave it too.
ParseDestinationInput(destination_input, fails) ==
  LET input_lower     == Lower(Strip(destination_input))
      city_result     == FindCityInMongodb(input_lower, fails)
      state_result    == FindStateInMongodb(input_lower, fails)
      landmark_result == FindLandmarkInPlaces(input_lower, fails)
  IN  IF city_result = Raise THEN Raised
      ELSE IF city_result # <<>> THEN
        [input_type |-> "city", parsed_value |-> input_lower,
         state |-> city_result[1].state, city |-> city_result[1].city,
         landmark |-> None, confidence |-> 9]
      ELSE IF state_result = Raise THEN Raised
      ELSE IF state_result # <<>> THEN
        [input_type |-> "state", parsed_value |-> input_lower,
         state |-> input_lower, city |-> None,
         landmark |-> None, confidence |-> 8]
      ELSE IF landmark_result = Raise THEN Raised
      ELSE IF landmark_result # <<>> THEN
        [input_type |-> "landmark", parsed_value |-> input_lower,
         state |-> landmark_result[1].state, city |-> landmark_result[1].city,
         landmark |-> landmark_result[1].landmark, confidence |-> 7]
      ELSE
        [input_type |-> "state", parsed_value |-> input_lower,
         state |-> input_lower, city |-> None,
         landmark |-> None, confidence |-> 3]


(***************************************************************************)
(* The classifier's specification: a catalog, and calls of                 *)
(* parse_destination_input on it.                                          *)
(***************************************************************************)

\* The longest catalog the classifier is checked on.
MaxDocs == 2

\* Sequences over S of length at most n.
RECURSIVE SeqsUpTo(_, _)
SeqsUpTo(S, n) ==
  IF n = 0 THEN {<<>>}
  ELSE LET shorter == SeqsUpTo(S, n - 1)
       IN  shorter \cup { Append(q, x) : q \in shorter, x \in S }

ClassifyCityNames ==
  { <<"A", "b">>, <<"A">>, <<"b", "A">>, <<"a", "(">> }

ClassifyStateNames == { <<"a", "B">>, <<"b", "(">> }

ClassifyPlaceLists == { <<>>, <<Place(<<"B", "c">>, 45), Place(<<"c">>, 40)>> }

ClassifyDocs ==
  { Doc(c, s, ps, Missing, {}, AbsentWord) :
      c \in ClassifyCityNames, s \in ClassifyStateNames, ps \in ClassifyPlaceLists }

ClassifyQueries ==
  { <<" ", "A", " ">>, <<"a", "B">>, <<"b">>, <<"B", "(">>, <<"a", "(">>,
    <<"a", ".">>, <<"c">>, <<"b", "c", "c">>, <<"c", " ", "a">>, <<>>,
    <<"c", "b">> }

\* The catalog failures one call is checked under: none, one query, all.
ClassifyFails == {{}} \cup { {site} : site \in ClassifySites } \cup {ClassifySites}

NoCall == [op |-> "none"]

\* No call has returned yet.
NoResult == [none |-> TRUE]

\* trip_requests holds no document for the user and trip asked about.
NoTrip == [found |-> FALSE]

\* seen is the caller's side of the exchange: the last request it made and
\* the response it got.  Before the first response it holds nothing.
NothingSeen == [call |-> NoCall, result |-> NoResult]

InitClassify ==
  /\ catalog \in SeqsUpTo(ClassifyDocs, MaxDocs)
  /\ trip = NoTrip
  /\ call = NoCall
  /\ result = NoResult
  /\ seen = NothingSeen

\* A call of parse_destination_input(query): requests are handled one at a
\* time.
Parse(query, fails) ==
  /\ call = NoCall
  /\ call' = [op |-> "parse", query |-> query, fails |-> fails]
  /\ result' = ParseDestinationInput(query, fails)
  /\ UNCHANGED <<catalog, trip, seen>>

\* The response is delivered; nothing of the request is kept.
Return ==
  /\ call # NoCall
  /\ call' = NoCall
  /\ result' = NoResult
  /\ UNCHANGED <<catalog, trip, seen>>

NextClassify ==
  \/ /\ call = NoCall
     /\ \E query \in ClassifyQueries, fails \in ClassifyFails : Parse(query, fails)
  \/ Return

SpecClassify == InitClassify /\ [][NextClassify]_vars


(***************************************************************************)
(* The classifier's claims.  The matches of the specification's text are   *)
(* literal: equality, prefix and substring of the lower-cased names.       *)
(***************************************************************************)

\* The normalized query of the call.
NormalizedQuery == Lower(Strip(call.query))

\* A parse call during which the catalog answered every query.
ParsedWithCatalogUp == call.op = "parse" /\ call.fails = {}

IsPrefix(p, s) == Len(p) <= Len(s) /\ SubSeq(s, 1, Len(p)) = p

CityEqual(q)     == {i \in 1..Len(catalog) : Lower(catalog[i].city) = q}
CityStartsWith(q) == {i \in 1..Len(catalog) : IsPrefix(q, Lower(catalog[i].city))}
CityContains(q)  == {i \in 1..Len(catalog) : Contains(Lower(catalog[i].city), q)}
StateEqual(q)    == {i \in 1..Len(catalog) : Lower(catalog[i].state) = q}
StateContains(q) == {i \in 1..Len(catalog) : Contains(Lower(catalog[i].state), q)}
LandmarkHits(q)  ==
  {i \in 1..Len(catalog) :
     \E j \in 1..Len(catalog[i].places) :
        LandmarkMatches(q, Lower(catalog[i].places[j].name))}

IsCityOf(r, i) ==
  /\ r # Raised
  /\ r.input_type = "city" /\ r.confidence = 9
  /\ r.city = Lower(catalog[i].city) /\ r.state = Lower(catalog[i].state)

IsStateResult(r, conf) ==
  /\ r # Raised
  /\ r.input_type = "state" /\ r.confidence = conf

\* C1: parse_destination_input resolves by ordered precedence, first match
\* wins: exact city, prefix city, substring city (City, 0.9, the first
\* catalog record matching at that level), exact state, substring state
\* (State, 0.8), landmark (Landmark, 0.7), fallback (State, 0.3).
C1_OrderedPrecedence ==
  ParsedWithCatalogUp =>
    LET q == NormalizedQuery
    IN  IF CityEqual(q) # {} THEN IsCityOf(result, FirstIndex(CityEqual(q)))
        ELSE IF CityStartsWith(q) # {} THEN IsCityOf(result, FirstIndex(CityStartsWith(q)))
        ELSE IF CityContains(q) # {} THEN IsCityOf(result, FirstIndex(CityContains(q)))
        ELSE IF StateEqual(q) # {} \/ StateContains(q) # {} THEN IsStateResult(result, 8)
        ELSE IF LandmarkHits(q) # {}
          THEN result # Raised /\ result.input_type = "landmark" /\ result.confidence = 7
        ELSE IsStateResult(result, 3)

\* C2: a query that, trimmed and lower-cased, equals a catalog city name
\* case-insensitively is classified as City with confidence 0.9, city that
\* name lower-cased and state the owning record's state lower-cased.
C2_ExactCity ==
  (ParsedWithCatalogUp /\ CityEqual(NormalizedQuery) # {}) =>
     \E i \in CityEqual(NormalizedQuery) : IsCityOf(result, i)

\* C3: a query that matches no catalog city (exact, prefix or substring) but
\* equals a catalog state name case-insensitively is classified as State,
\* confidence 0.8, state the lower-cased query, city and landmark absent.
C3_ExactState ==
  (/\ ParsedWithCatalogUp
   /\ CityContains(NormalizedQuery) = {}
   /\ StateEqual(NormalizedQuery) # {}) =>
     /\ IsStateResult(result, 8)
     /\ result.state = NormalizedQuery
     /\ result.city = None /\ result.landmark = None

\* C4: a query that matches no city, no state and no landmark is classified
\* as State with confidence 0.3 and state the normalized query, and
\* confidence 0.3 is returned only in that case.
NothingMatches(q) ==
  CityContains(q) = {} /\ StateContains(q) = {} /\ LandmarkHits(q) = {}

C4_Fallback ==
  ParsedWithCatalogUp =>
    /\ NothingMatches(NormalizedQuery) =>
          IsStateResult(result, 3) /\ result.state = NormalizedQuery
    /\ (result # Raised /\ result.confidence = 3) => NothingMatches(NormalizedQuery)

\* C5: parse_destination_input never fails: for every query and every
\* catalog, also one whose lookups raise, it returns a result whose
\* input_type is state, city or landmark and whose confidence is 0.9, 0.8,
\* 0.7 or 0.3.
C5_NeverFails ==
  call.op = "parse" =>
    /\ result # Raised
    /\ result.input_type \in {"state", "city", "landmark"}
    /\ result.confidence \in {9, 8, 7, 3}

\* C5's case: the catalog raised on the lookup of a city the query names,
\* and the result is degraded to something else than that city.
C5_Witness ==
  /\ call.op = "parse"
  /\ "city_exact" \in call.fails
  /\ CityEqual(NormalizedQuery) # {}
  /\ result # Raised
  /\ result.input_type # "city"


(***************************************************************************)
(* The preference scorer.  Tags, types and preference answers are words    *)
(* (TLA+ strings); scores and weights are in hundredths, the returned      *)
(* score in ten-thousandths (10000 is 1.0).                                *)
(***************************************************************************)

\* str.lower() on a word.
WordLower(w) ==
  CASE w = "Exploring" -> "exploring"
    [] w = "Always Excited" -> "always excited"
    [] w = "Adventure" -> "adventure"
    [] w = "Offbeat" -> "offbeat"
    [] OTHER -> w

\* user_preferences.get(key, '').lower(): the key's default is '', and a
\* null value has no lower().
PrefRaises(prefs, key) == prefs[key] = NullWord

Pref(prefs, key) == IF prefs[key] = AbsentWord THEN "" ELSE WordLower(prefs[key])

\* [tag.lower() for tag in item_data.get("tags", [])]
ItemTags(item) == { WordLower(tag) : tag \in item.tags }

\* float(item_data.get("rating", 4.0)), in tenths.
ItemRating(item) == IF item.rating = Missing THEN 40 ELSE item.rating

\* any(tag in words for tag in item_tags)
AnyTag(item, words) == ItemTags(item) \cap words # {}

\* 1. Travel excitement
ExcitementScore(item, prefs) ==
  LET travel_excitement == Pref(prefs, "travel_excitement")
  IN  IF travel_excitement = "exploring" THEN
        IF AnyTag(item, {"adventure", "explore", "trek", "hike", "outdoor"}) THEN 100
        ELSE IF AnyTag(item, {"historical", "heritage", "cultural"}) THEN 80
        ELSE 0
      ELSE IF travel_excitement = "relaxing" THEN
        IF AnyTag(item, {"spa", "yoga", "meditation", "peaceful", "serene"}) THEN 100
        ELSE IF AnyTag(item, {"lake", "garden", "nature"}) THEN 80
        ELSE 0
      ELSE IF travel_excitement = "cultural" THEN
        IF AnyTag(item, {"temple", "museum", "heritage", "cultural", "traditional"}) THEN 100
        ELSE IF AnyTag(item, {"historical", "art", "architecture"}) THEN 80
        ELSE 0
      ELSE 0

\* 2. Free time preference
FreeTimeScore(item, prefs) ==
  LET free_time_preference == Pref(prefs, "free_time_preference")
  IN  IF free_time_preference = "outdoor" THEN
        IF AnyTag(item, {"outdoor", "nature", "adventure", "trek", "hike"}) THEN 100 ELSE 0
      ELSE IF free_time_preference = "indoor" THEN
        IF AnyTag(item, {"museum", "shopping", "cinema", "indoor"}) THEN 100 ELSE 0
      ELSE IF free_time_preference = "meditation/yoga" THEN
        IF AnyTag(item, {"spa", "yoga", "meditation", "spiritual"}) THEN 100 ELSE 0
      ELSE 0

\* 3. Openness to new experiences
OpennessScore(item, prefs) ==
  LET openness == Pref(prefs, "openness_to_new_experiences")
  IN  IF openness = "always excited" THEN
        IF AnyTag(item, {"unique", "offbeat", "local", "authentic"}) THEN 100
        ELSE IF ItemRating(item) < 40 THEN 80
        ELSE 0
      ELSE IF openness = "prefer familiar things" THEN
        IF ItemRating(item) >= 40 THEN 100
        ELSE IF AnyTag(item, {"popular", "famous", "well-known"}) THEN 80
        ELSE 0
      ELSE 0

\* 4. Travel planning style
PlanningScore(item, prefs) ==
  LET travel_planning_style == Pref(prefs, "travel_planning_style")
  IN  IF travel_planning_style = "well-planned itinerary" THEN
        IF AnyTag(item, {"famous", "must-visit", "popular"}) THEN 100 ELSE 0
      ELSE IF travel_planning_style = "spontaneous plans" THEN
        IF AnyTag(item, {"hidden", "offbeat", "local"}) THEN 100 ELSE 0
      ELSE 0

\* 5. Travel life role
RoleScore(item, prefs) ==
  LET travel_life_role == Pref(prefs, "travel_life_role")
  IN  IF travel_life_role = "adventure seeker" THEN
        IF AnyTag(item, {"adventure", "trek", "hike", "outdoor"}) THEN 100 ELSE 0
      ELSE IF travel_life_role = "culture enthusiast" THEN
        IF AnyTag(item, {"cultural", "heritage", "temple", "museum"}) THEN 100 ELSE 0
      ELSE IF travel_life_role = "relaxation seeker" THEN
        IF AnyTag(item, {"spa", "yoga", "peaceful", "serene"}) THEN 100 ELSE 0
      ELSE 0

\* 6. Rating bonus: min(item_rating / 5.0, 1.0)
RatingScore(item) == IF ItemRating(item) * 2 <= 100 THEN ItemRating(item) * 2 ELSE 100

\* The six terms in the order the code adds them: the sub-score and the
\* weight it is multiplied by.
ScoreTerms(item, prefs) ==
  << [sub |-> ExcitementScore(item, prefs), weight |-> 25],
     [sub |-> FreeTimeScore(item, prefs),   weight |-> 20],
     [sub |-> OpennessScore(item, prefs),   weight |-> 15],
     [sub |-> PlanningScore(item, prefs),   weight |-> 15],
     [sub |-> RoleScore(item, prefs),       weight |-> 10],
     [sub |-> RatingScore(item),            weight |-> 15] >>

\* The sum of a list of numbers.
RECURSIVE SumOver(_)
SumOver(numbers) ==
  IF numbers = <<>> THEN 0 ELSE Head(numbers) + SumOver(Tail(numbers))

\* score += sub * weight, over the terms.
WeightedSum(terms) ==
  SumOver([i \in 1..Len(terms) |-> terms[i].sub * terms[i].weight])

\* total_weight += weight, only for the terms that matched.
TotalWeight_MatchedOnly(terms) ==
  SumOver([i \in 1..Len(terms) |-> IF terms[i].sub > 0 THEN terms[i].weight ELSE 0])

\* total_weight += weight, after every term.
TotalWeight(terms) == SumOver([i \in 1..Len(terms) |-> terms[i].weight])

\* The preference fields in the order the code reads them.
PrefKeys ==
  {"travel_excitement", "free_time_preference", "openness_to_new_experiences",
   "travel_planning_style", "travel_life_role"}

\* TravelAgent._enhanced_personalization_score: [value |-> v] with v in
\* ten-thousandths, or Raised (AttributeError of None.lower() or of
\* list.lower()).
EnhancedPersonalizationScore(item, prefs) ==
  IF (\E key \in PrefKeys : PrefRaises(prefs, key)) \/ item.type = ListType
  THEN Raised
  ELSE LET terms        == ScoreTerms(item, prefs)
           score        == WeightedSum(terms)
           total_weight == TotalWeight(terms)
       IN  IF total_weight > 0
           THEN [value |-> (score * 100) \div total_weight]
           ELSE [value |-> 0]


(***************************************************************************)
(* The scorer's specification: calls of _enhanced_personalization_score on *)
(* items and preference profiles.                                          *)
(***************************************************************************)

\* The most tags an item of the scorer's specification carries.
MaxTags == 2

ScoreTagWords == {"Adventure", "heritage", "spa", "offbeat", "famous", "museum"}

ScoreTagSets == { tags \in SUBSET ScoreTagWords : Cardinality(tags) <= MaxTags }

\* Ratings in tenths: inside [0,5], at the 4.0 threshold, and one above 5.
ScoreRatings == {0, 39, 40, 50, 55}

ScoreItems ==
  { [Place(<<"c">>, rating) EXCEPT !.tags = tags, !.type = type] :
      rating \in ScoreRatings, tags \in ScoreTagSets, type \in {"heritage", ListType} }

Prefs(excitement, free_time, openness, planning, role) ==
  [travel_excitement           |-> excitement,
   free_time_preference        |-> free_time,
   openness_to_new_experiences |-> openness,
   travel_planning_style       |-> planning,
   travel_life_role            |-> role]

ScorePrefs ==
  { Prefs(e, f, o, p, r) :
      e \in {AbsentWord, "Exploring", "relaxing", "cultural"},
      f \in {AbsentWord, "outdoor", "indoor", "meditation/yoga"},
      o \in {AbsentWord, "Always Excited", "prefer familiar things"},
      p \in {AbsentWord, "well-planned itinerary", "spontaneous plans"},
      r \in {AbsentWord, "adventure seeker", "culture enthusiast", "relaxation seeker"} }
  \cup { Prefs(NullWord, "outdoor", AbsentWord, AbsentWord, "adventure seeker"),
         Prefs("sightseeing", "outdoor", AbsentWord, AbsentWord, NullWord) }

InitScore ==
  /\ catalog = <<>>
  /\ trip = NoTrip
  /\ call = NoCall
  /\ result = NoResult
  /\ seen = NothingSeen

\* A call of _enhanced_personalization_score(item, prefs).
Score(item, prefs) ==
  /\ call = NoCall
  /\ call' = [op |-> "score", item |-> item, prefs |-> prefs]
  /\ result' = EnhancedPersonalizationScore(item, prefs)
  /\ UNCHANGED <<catalog, trip, seen>>

NextScore ==
  \/ /\ call = NoCall
     /\ \E item \in ScoreItems, prefs \in ScorePrefs : Score(item, prefs)
  \/ Return

SpecScore == InitScore /\ [][NextScore]_vars

NoItinerary == [none |-> TRUE]

TripDoc(destination, preferences) ==
  [found |-> TRUE,
   travelPreferences |-> preferences,
   tripData |-> [destination |-> destination, status |-> "pending"],
   initialItinerary |-> NoItinerary]

\* cities_collection.find({"state": destination}): an exact match.
CitiesOfState(destination) ==
  SelectSeq(catalog, LAMBDA city_doc : city_doc.state = destination)

\* city_doc.get("city_rating", 4.0), city_doc.get("city_type", "heritage_city")
DefaultRating == 40

CityInfo(city_doc, default_rating) ==
  [name   |-> city_doc.city,
   rating |-> IF city_doc.city_rating = Missing THEN default_rating
              ELSE city_doc.city_rating,
   tags   |-> city_doc.city_tags,
   type   |-> IF city_doc.city_type = AbsentWord THEN "heritage_city"
              ELSE city_doc.city_type]

CityInfos(destination, default_rating) ==
  LET docs == CitiesOfState(destination)
  IN  [i \in 1..Len(docs) |-> CityInfo(docs[i], default_rating)]

\* list[:n]
Take(list, n) == SubSeq(list, 1, IF Len(list) < n THEN Len(list) ELSE n)

\* A variant of the insertion that puts a pair behind the pairs of its
\* key: ties come out in reverse input order.
InsertDescending_BehindTies(pair, sorted) ==
  LET k == Cardinality({ i \in 1..Len(sorted) : sorted[i].key >= pair.key })
  IN  SubSeq(sorted, 1, k) \o <<pair>> \o SubSeq(sorted, k + 1, Len(sorted))

\* sorted(list, key=..., reverse=True) on a list of [key, item] pairs: the
\* sort is stable, items of one key keep the order they had in the list.
InsertDescending(pair, sorted) ==
  LET k == Cardinality({ i \in 1..Len(sorted) : sorted[i].key > pair.key })
  IN  SubSeq(sorted, 1, k) \o <<pair>> \o SubSeq(sorted, k + 1, Len(sorted))

RECURSIVE SortedDescending(_)
SortedDescending(pairs) ==
  IF pairs = <<>> THEN <<>>
  ELSE InsertDescending(Head(pairs), SortedDescending(Tail(pairs)))

\* The items of a list in descending order of their keys, keys[i] being
\* the key of list[i].
SortedByKeys(list, keys) ==
  LET sorted == SortedDescending([i \in 1..Len(list) |->
                                    [key |-> keys[i], item |-> list[i]]])
  IN  [i \in 1..Len(sorted) |-> sorted[i].item]

\* sorted(cities, key=lambda x: float(x["rating"]), reverse=True)
SortedByRating(cities) ==
  SortedByKeys(cities, [i \in 1..Len(cities) |-> cities[i].rating])

\* The sizes the code cuts its lists to.
BucketSize == 5
BackfillSize == 3

\* _popular_cities reads city_rating with no default, and float(None) raises.
PopularCitiesRaises(destination) ==
  \E city_doc \in Range(CitiesOfState(destination)) : city_doc.city_rating = Missing

PopularCities(destination) ==
  Take(SortedByRating(CityInfos(destination, Missing)), BucketSize)

HiddenGemTags ==
  {"offbeat", "hidden", "local", "authentic", "lesser-known", "traditional"}

HiddenGemRule(city) ==
  \/ city.rating < 40
  \/ \E tag \in city.tags : WordLower(tag) \in HiddenGemTags
  \/ WordLower(city.type) \in {"spiritual_city", "adventure_destination"}

HiddenGemCities(destination) ==
  Take(SelectSeq(CityInfos(destination, DefaultRating), HiddenGemRule), BucketSize)

\* _ai_recommend_cities: the names the LLM answered with, each replaced by
\* the catalog's first city of that name in the state; names the state does
\* not hold are dropped.
RECURSIVE AiRecommendCities(_, _)
AiRecommendCities(destination, shortlist) ==
  IF shortlist = <<>> THEN <<>>
  ELSE LET available_cities == CityInfos(destination, DefaultRating)
           matching == { i \in 1..Len(available_cities) :
                           available_cities[i].name = Head(shortlist) }
           rest == AiRecommendCities(destination, Tail(shortlist))
       IN  IF matching = {} THEN rest
           ELSE <<available_cities[FirstIndex(matching)]>> \o rest

\* The text of an LLM response, by what it spells: no JSON at all, or a
\* JSON value, alone or with prose around it.  A value is an array of
\* elements, an object (of a name key, or of no key at all), a number or a
\* string of so many characters; the prose holds no bracket.
NoJson == [kind |-> "none"]
JsonNumber == [kind |-> "number"]
JsonString(chars) == [kind |-> "string", chars |-> chars]
JsonObject(name, empty) == [kind |-> "object", name |-> name, empty |-> empty]
JsonArray(elements) == [kind |-> "array", elements |-> elements]

CityObject(name) == JsonObject(name, FALSE)

\* The response the prompt asks for: an array of objects with a name.
ArrayOfCities(names) == JsonArray([i \in 1..Len(names) |-> CityObject(names[i])])

LlmResponse(json, prose) == [json |-> json, prose |-> prose]

\* TravelAgent._parse_llm_response: the search for `[...]` or `{...}` finds
\* an array or an object, prose around it or not, and json.loads returns
\* it; a text without brackets is loaded whole, which yields a scalar when
\* the text is one and `[]` when both parsers reject it.
ParseLlmResponse(response) ==
  IF response.json.kind \in {"array", "object"} THEN response.json
  ELSE IF response.json.kind = "none" \/ response.prose THEN JsonArray(<<>>)
  ELSE response.json

\* The loop of _ai_recommend_cities raises on a value that is not iterable
\* (TypeError) and, when the state holds a city, at the first element that
\* has no .get: an element of an array that is no object, a key of an
\* object, a character of a string (AttributeError).
AiRecommendRaises(destination, ai_recommendations) ==
  LET available_cities == CityInfos(destination, DefaultRating)
  IN  CASE ai_recommendations.kind = "number" -> TRUE
        [] ai_recommendations.kind = "string" ->
             ai_recommendations.chars > 0 /\ available_cities # <<>>
        [] ai_recommendations.kind = "object" ->
             ~ai_recommendations.empty /\ available_cities # <<>>
        [] ai_recommendations.kind = "array" ->
             /\ available_cities # <<>>
             /\ \E i \in 1..Len(ai_recommendations.elements) :
                  ai_recommendations.elements[i].kind # "object"

\* ai_city.get("name") of the elements the loop goes through without
\* raising.
ShortlistOf(ai_recommendations) ==
  IF ai_recommendations.kind # "array" THEN <<>>
  ELSE [i \in 1..Len(ai_recommendations.elements) |->
          IF ai_recommendations.elements[i].kind = "object"
          THEN ai_recommendations.elements[i].name ELSE None]

\* A variant of _ai_recommend_cities that returns every city the LLM named,
\* with the defaults in place of the catalog's fields.
AiRecommendCitiesFrom_Unfiltered(destination, response) ==
  LET ai_recommendations == ParseLlmResponse(response)
      shortlist == ShortlistOf(ai_recommendations)
  IN  IF AiRecommendRaises(destination, ai_recommendations) THEN Raise
      ELSE [i \in 1..Len(shortlist) |->
              [name |-> shortlist[i], rating |-> DefaultRating, tags |-> {},
               type |-> "heritage_city"]]

\* _ai_recommend_cities on the response of the LLM: the list, or Raise.
AiRecommendCitiesFrom(destination, response) ==
  LET ai_recommendations == ParseLlmResponse(response)
  IN  IF AiRecommendRaises(destination, ai_recommendations) THEN Raise
      ELSE AiRecommendCities(destination, ShortlistOf(ai_recommendations))

\* {c.get("name") for c in cities if c.get("name")}
CityNamesOf(cities) ==
  { cities[i].name : i \in { j \in 1..Len(cities) : cities[j].name # <<>> } }

NotNamedIn(cities, names) ==
  SelectSeq(cities, LAMBDA c : c.name \notin names)

\* popular_cities and hidden_gem_cities after "Ensure no duplicates".
PopularAfterDedup(destination, ai_cities) ==
  NotNamedIn(PopularCities(destination), CityNamesOf(ai_cities))

\* The same with the popular names left out of the filter.
HiddenAfterDedup_AiOnly(destination, ai_cities) ==
  NotNamedIn(HiddenGemCities(destination), CityNamesOf(ai_cities))

HiddenAfterDedup(destination, ai_cities) ==
  NotNamedIn(HiddenGemCities(destination),
             CityNamesOf(ai_cities) \cup CityNamesOf(PopularCities(destination)))

\* "Ensure we have at least some cities in each category".
FinalPopular(destination, ai_cities) ==
  IF Len(PopularAfterDedup(destination, ai_cities)) = 0
  THEN NotNamedIn(Take(SortedByRating(CityInfos(destination, DefaultRating)),
                       BackfillSize),
                  CityNamesOf(ai_cities))
  ELSE PopularAfterDedup(destination, ai_cities)

FinalHidden(destination, ai_cities) ==
  IF Len(HiddenAfterDedup(destination, ai_cities)) = 0
  THEN LET hidden_candidates ==
             SelectSeq(CityInfos(destination, DefaultRating), HiddenGemRule)
           popular_names ==
             { c.name : c \in Range(FinalPopular(destination, ai_cities)) }
       IN  NotNamedIn(Take(hidden_candidates, BackfillSize),
                      CityNamesOf(ai_cities) \cup popular_names)
  ELSE HiddenAfterDedup(destination, ai_cities)

\* generate_initial_recommendations(user_id, trip_id) on the trip document
\* of that user and trip, the LLM answering with `response`.
GenerateInitialRecommendations(trip_doc, response) ==
  IF ~trip_doc.found THEN [status |-> "error", error |-> "Trip not found"]
  ELSE
    LET destination == trip_doc.tripData.destination
        ai_cities   == AiRecommendCitiesFrom(destination, response)
    IN  IF ai_cities = Raise \/ PopularCitiesRaises(destination)
        THEN [status |-> "error", error |-> "exception"]
        ELSE [status |-> "success",
              cities |-> [ai_recommended |-> ai_cities,
                          popular        |-> FinalPopular(destination, ai_cities),
                          hidden_gems    |-> FinalHidden(destination, ai_cities)]]

(***************************************************************************)
(* The specification of generate_initial_recommendations: one state's      *)
(* cities in the catalog, one trip document, and the LLM's response as     *)
(* the input of each call.                                                 *)
(***************************************************************************)

\* The most cities the state holds.
MaxCities == 6

InitialState == <<"R", "j">>

CityLetters == <<"a", "b", "c", "d", "e", "f", "g", "h">>

\* The catalog holds one document per state and city
\* (src/data_extraction.py skips a city it already holds).
CityNameAt(i) == <<"C", CityLetters[i]>>

\* A well rated city, a low rated one, and a well rated one off the beaten
\* track.
CityKinds ==
  { [rating |-> 48, tags |-> {}], [rating |-> 38, tags |-> {}],
    [rating |-> 44, tags |-> {"Offbeat"}] }

\* Catalogs whose documents carry the city metadata, and catalogs as
\* src/data_extraction.py inserts them: state, city and places only.
RatedCatalogs ==
  UNION { { [i \in 1..n |-> Doc(CityNameAt(i), InitialState, <<>>,
                                 kinds[i].rating, kinds[i].tags, AbsentWord)] :
              kinds \in [1..n -> CityKinds] } : n \in 0..MaxCities }

UnratedCatalogs ==
  { [i \in 1..n |-> Doc(CityNameAt(i), InitialState, <<>>, Missing, {}, AbsentWord)] :
      n \in 1..MaxCities }

\* The LLM's answers: the empty list and every run of consecutive names,
\* those of cities the state does not hold included.
Shortlists ==
  {<<>>} \cup { [k \in 1..(j - i + 1) |-> CityNameAt(i + k - 1)] :
                  i \in 1..MaxCities, j \in 1..MaxCities }

\* Responses that are not an array of objects: prose, an array of strings,
\* an array with a number behind an object, an object, an empty object, a
\* number, a number in prose, a string; and an array of objects in prose.
MalformedResponses ==
  {LlmResponse(NoJson, TRUE),
   LlmResponse(JsonArray(<<JsonString(2)>>), FALSE),
   LlmResponse(JsonArray(<<CityObject(CityNameAt(1)), JsonNumber>>), FALSE),
   LlmResponse(CityObject(CityNameAt(1)), FALSE),
   LlmResponse(JsonObject(None, TRUE), FALSE),
   LlmResponse(JsonNumber, FALSE),
   LlmResponse(JsonNumber, TRUE),
   LlmResponse(JsonString(2), FALSE)}

InitialResponses ==
  { LlmResponse(ArrayOfCities(names), FALSE) : names \in Shortlists }
  \cup {LlmResponse(ArrayOfCities(<<CityNameAt(1)>>), TRUE)}
  \cup MalformedResponses

NoPrefs == Prefs(AbsentWord, AbsentWord, AbsentWord, AbsentWord, AbsentWord)

InitInitial ==
  /\ catalog \in RatedCatalogs \cup UnratedCatalogs
  /\ trip \in {NoTrip, TripDoc(InitialState, NoPrefs),
               TripDoc(Lower(InitialState), NoPrefs)}
  /\ call = NoCall
  /\ result = NoResult
  /\ seen = NothingSeen

\* A call of generate_initial_recommendations; on success the itinerary is
\* saved in the trip document and only the status is returned.
GenerateInitial(response) ==
  LET outcome == GenerateInitialRecommendations(trip, response)
  IN  /\ call' = [op |-> "generate_initial", response |-> response]
      /\ result' = [status |-> outcome.status]
      /\ trip' = IF outcome.status = "success"
                 THEN [trip EXCEPT !.initialItinerary = [cities |-> outcome.cities],
                                   !.tripData.status = "initial_generated"]
                 ELSE trip
      /\ UNCHANGED <<catalog, seen>>

\* The itinerary written does not depend on the one it replaces: the first
\* generation on a trip document stands for every later one.
NextInitial ==
  \/ /\ call = NoCall
     /\ trip.found => trip.initialItinerary = NoItinerary
     /\ \E response \in InitialResponses : GenerateInitial(response)
  \/ Return

SpecInitial == InitInitial /\ [][NextInitial]_vars

\* Every name of a list, the empty one included.
AllNamesOf(cities) == { c.name : c \in Range(cities) }

\* C7: in the itinerary generate_initial_recommendations saves, popular
\* holds no name of ai_recommended and hidden_gems holds no name of
\* ai_recommended or of popular, whether or not a backfill step ran.
C7_BucketsDisjoint ==
  (trip.found /\ trip.initialItinerary # NoItinerary) =>
    LET cities == trip.initialItinerary.cities
    IN  /\ AllNamesOf(cities.popular) \cap AllNamesOf(cities.ai_recommended) = {}
        /\ AllNamesOf(cities.hidden_gems) \cap
             (AllNamesOf(cities.ai_recommended) \cup AllNamesOf(cities.popular)) = {}

\* C7's case: a saved itinerary with three non-empty buckets, from a call in
\* which deduplication took an AI city out of popular and a popular city
\* out of hidden_gems.
C7_Witness ==
  /\ call.op = "generate_initial"
  /\ result.status = "success"
  /\ LET destination == trip.tripData.destination
         cities == trip.initialItinerary.cities
     IN  /\ cities.ai_recommended # <<>>
         /\ cities.popular # <<>>
         /\ cities.hidden_gems # <<>>
         /\ AllNamesOf(PopularCities(destination))
              \cap AllNamesOf(cities.ai_recommended) # {}
         /\ AllNamesOf(HiddenGemCities(destination))
              \cap AllNamesOf(cities.popular) # {}

\* C9: when popular is empty after deduplication and the state holds a city
\* that is not in ai_recommended, the final popular bucket is non-empty (at
\* most 3 cities, none of ai_recommended); when hidden_gems is empty after
\* deduplication and the state holds a city that satisfies the hidden-gem
\* rule and is in neither higher bucket, the final hidden_gems bucket is
\* non-empty.
C9_BackfillFills ==
  (call.op = "generate_initial" /\ result.status = "success") =>
    LET destination == trip.tripData.destination
        cities      == trip.initialItinerary.cities
        ai_cities   == AiRecommendCitiesFrom(destination, call.response)
        pool        == Range(CityInfos(destination, DefaultRating))
    IN  /\ (/\ Len(PopularAfterDedup(destination, ai_cities)) = 0
            /\ \E c \in pool : c.name \notin AllNamesOf(cities.ai_recommended))
           => /\ Len(cities.popular) \in 1..BackfillSize
              /\ AllNamesOf(cities.popular) \cap AllNamesOf(cities.ai_recommended) = {}
        /\ (/\ Len(HiddenAfterDedup(destination, ai_cities)) = 0
            /\ \E c \in pool :
                 /\ HiddenGemRule(c)
                 /\ c.name \notin AllNamesOf(cities.ai_recommended)
                 /\ c.name \notin AllNamesOf(cities.popular))
           => Len(cities.hidden_gems) > 0

(***************************************************************************)
(* Ranking: the seasonal and budget multipliers and                        *)
(* _get_personalized_recommendations.  Multipliers are in tenths; a        *)
(* final_score is in thousandths, rounded from the exact product.          *)
(***************************************************************************)

\* get_user_profile on a trip document that was found: json.dumps of the
\* document's top-level keys, read back by json.loads.  A key the document
\* does not hold is null.
TopLevel(trip_doc, key) ==
  IF key \in DOMAIN trip_doc THEN <<trip_doc[key]>> ELSE NoNumber

GetUserProfile(trip_doc) ==
  [personality_answers |-> trip_doc.travelPreferences,
   budget              |-> TopLevel(trip_doc, "budget"),
   start_date          |-> TopLevel(trip_doc, "start_date"),
   num_of_travellers   |-> TopLevel(trip_doc, "num_travelers")]

\* strftime("%B").lower() of month m.
MonthName(m) ==
  CASE m = 1  -> <<"j", "a", "n", "u", "a", "r", "y">>
    [] m = 2  -> <<"f", "e", "b", "r", "u", "a", "r", "y">>
    [] m = 3  -> <<"m", "a", "r", "c", "h">>
    [] m = 4  -> <<"a", "p", "r", "i", "l">>
    [] m = 5  -> <<"m", "a", "y">>
    [] m = 6  -> <<"j", "u", "n", "e">>
    [] m = 7  -> <<"j", "u", "l", "y">>
    [] m = 8  -> <<"a", "u", "g", "u", "s", "t">>
    [] m = 9  -> <<"s", "e", "p", "t", "e", "m", "b", "e", "r">>
    [] m = 10 -> <<"o", "c", "t", "o", "b", "e", "r">>
    [] m = 11 -> <<"n", "o", "v", "e", "m", "b", "e", "r">>
    [] m = 12 -> <<"d", "e", "c", "e", "m", "b", "e", "r">>

Winter  == <<"w", "i", "n", "t", "e", "r">>
Summer  == <<"s", "u", "m", "m", "e", "r">>
Monsoon == <<"m", "o", "n", "s", "o", "o", "n">>

\* A variant of _seasonal_optimization that looks for a season before it
\* looks for the month.
SeasonalOptimization_SeasonFirst(item, start_date) ==
  IF start_date = NoNumber THEN 10
  ELSE IF start_date[1] \notin 1..12 THEN 10
  ELSE
    LET month     == start_date[1]
        best_time == Lower(item.best_time_to_visit)
    IN  IF best_time = <<>> THEN 10
        ELSE IF \E season \in {Winter, Summer, Monsoon} : Contains(best_time, season)
        THEN IF month \in {12, 1, 2} /\ Contains(best_time, Winter) THEN 13
             ELSE IF month \in {3, 4, 5} /\ Contains(best_time, Summer) THEN 13
             ELSE IF month \in {6, 7, 8, 9} /\ Contains(best_time, Monsoon) THEN 13
             ELSE 7
        ELSE IF Contains(best_time, MonthName(month)) THEN 15
        ELSE 10

\* TravelAgent._seasonal_optimization.  start_date is None, or the month of
\* a date, month 0 standing for a text strptime rejects (the except clause
\* returns 1.0).
SeasonalOptimization(item, start_date) ==
  IF start_date = NoNumber THEN 10
  ELSE IF start_date[1] \notin 1..12 THEN 10
  ELSE
    LET month     == start_date[1]
        best_time == Lower(item.best_time_to_visit)
    IN  IF best_time = <<>> THEN 10
        ELSE IF Contains(best_time, MonthName(month)) THEN 15
        ELSE IF \E season \in {Winter, Summer, Monsoon} : Contains(best_time, season)
        THEN IF month \in {12, 1, 2} /\ Contains(best_time, Winter) THEN 13
             ELSE IF month \in {3, 4, 5} /\ Contains(best_time, Summer) THEN 13
             ELSE IF month \in {6, 7, 8, 9} /\ Contains(best_time, Monsoon) THEN 13
             ELSE 7
        ELSE 10

\* A value that is present but is not a number (a text float() or int()
\* rejects), beside NoNumber (None) and <<n>> (the number n).
NotANumber == <<0, 0>>

IsNumber(value) == Len(value) = 1

\* The floats of _budget_optimization are IEEE-754 doubles.  A positive
\* double is [m, e]: m the 53 binary digits of its significand, most
\* significant first, e the exponent of the last of them, so that its value
\* is m * 2^e.  The arithmetic below works on digit lists, sixteen digits a
\* step, which keeps every intermediate number small.
SignificandBits == 53
ChunkBits == 16
Chunk == 2^ChunkBits
StreamBits == 8 * ChunkBits

Zeros(count) == [i \in 1..count |-> 0]

\* bits without its leading zeros; bits holds a 1.
StripZeros(bits) ==
  LET first == CHOOSE i \in 1..Len(bits) :
                 bits[i] = 1 /\ \A j \in 1..(i - 1) : bits[j] = 0
  IN  SubSeq(bits, first, Len(bits))

\* The ChunkBits binary digits of a number below Chunk.
FixedBinary(value) == [i \in 1..ChunkBits |-> (value \div 2^(ChunkBits - i)) % 2]

\* The binary digits of a natural number below 2^30, most significant first.
Binary(n) ==
  IF n = 0 THEN <<>>
  ELSE StripZeros([i \in 1..30 |-> (n \div 2^(30 - i)) % 2])

\* The number a list of at most ChunkBits digits stands for.
RECURSIVE BitsValue(_)
BitsValue(bits) ==
  IF bits = <<>> THEN 0
  ELSE 2 * BitsValue(SubSeq(bits, 1, Len(bits) - 1)) + bits[Len(bits)]

\* bits + 1.
Increment(bits) ==
  IF \A i \in 1..Len(bits) : bits[i] = 1 THEN <<1>> \o Zeros(Len(bits))
  ELSE LET last == CHOOSE i \in 1..Len(bits) :
                     bits[i] = 0 /\ \A j \in (i + 1)..Len(bits) : bits[j] = 1
       IN  [i \in 1..Len(bits) |->
              IF i < last THEN bits[i] ELSE IF i = last THEN 1 ELSE 0]

\* a <= b, for digit lists without leading zeros.
BitsAtMost(a, b) ==
  IF Len(a) # Len(b) THEN Len(a) < Len(b)
  ELSE \/ a = b
       \/ \E i \in 1..Len(a) : /\ a[i] < b[i]
                               /\ \A j \in 1..(i - 1) : a[j] = b[j]

\* Round to nearest, ties to even: the exact value is bits * 2^exponent plus,
\* when sticky, a positive amount below 2^exponent; bits has at least 53
\* digits and no leading zero.
RoundToDouble(bits, sticky, exponent) ==
  LET n         == Len(bits)
      keep      == SubSeq(bits, 1, SignificandBits)
      round_bit == IF n > SignificandBits THEN bits[SignificandBits + 1] ELSE 0
      below     == sticky \/ \E i \in (SignificandBits + 2)..n : bits[i] = 1
      up        == round_bit = 1 /\ (below \/ keep[SignificandBits] = 1)
      raised    == Increment(keep)
  IN  IF ~up THEN [m |-> keep, e |-> exponent + (n - SignificandBits)]
      ELSE IF Len(raised) > SignificandBits
      THEN [m |-> SubSeq(raised, 1, SignificandBits),
            e |-> exponent + (n - SignificandBits) + 1]
      ELSE [m |-> raised, e |-> exponent + (n - SignificandBits)]

\* Long division of the digits of stream by divisor (below 2^15), a chunk of
\* the quotient a step: the digits of the quotient, as many as the stream
\* has, and the last remainder.
RECURSIVE LongDivision(_, _, _)
LongDivision(stream, remainder, divisor) ==
  IF stream = <<>> THEN [bits |-> <<>>, remainder |-> remainder]
  ELSE LET carried == remainder * Chunk + BitsValue(SubSeq(stream, 1, ChunkBits))
           rest    == LongDivision(SubSeq(stream, ChunkBits + 1, Len(stream)),
                                   carried % divisor, divisor)
       IN  [bits      |-> FixedBinary(carried \div divisor) \o rest.bits,
            remainder |-> rest.remainder]

\* x / divisor in double arithmetic, divisor a positive whole number: the
\* quotient of x.m followed by zeros, rounded.
DoubleQuotient(x, divisor) ==
  LET exact == LongDivision(x.m \o Zeros(StreamBits - Len(x.m)), 0, divisor)
  IN  RoundToDouble(StripZeros(exact.bits), exact.remainder # 0,
                    x.e + Len(x.m) - StreamBits)

\* The digits of stream * factor + carry, a chunk a step from the right.
RECURSIVE TimesSmall(_, _, _)
TimesSmall(stream, factor, carry) ==
  IF stream = <<>> THEN FixedBinary(carry)
  ELSE LET front == SubSeq(stream, 1, Len(stream) - ChunkBits)
           value == BitsValue(SubSeq(stream, Len(stream) - ChunkBits + 1, Len(stream)))
                      * factor + carry
       IN  TimesSmall(front, factor, value \div Chunk) \o FixedBinary(value % Chunk)

\* x * factor in double arithmetic, factor a positive whole number.
DoubleProduct(x, factor) ==
  RoundToDouble(StripZeros(TimesSmall(Zeros(4 * ChunkBits - Len(x.m)) \o x.m, factor, 0)),
                FALSE, x.e)

\* x <= limit, limit a positive whole number.
DoubleAtMost(x, limit) ==
  IF x.e >= 0 THEN FALSE
  ELSE BitsAtMost(x.m, Binary(limit) \o Zeros(-x.e))

\* budget_percentage = (per_person_cost / user_budget) * 100 for a positive
\* cost, budget and group size: float(cost) is exact, and each of the two
\* divisions and the product rounds.
BudgetPercentage(item_cost, user_budget, people) ==
  LET per_person_cost == DoubleQuotient([m |-> Binary(item_cost), e |-> 0], people)
  IN  DoubleProduct(DoubleQuotient(per_person_cost, user_budget), 100)

Magnitude(n) == IF n < 0 THEN -n ELSE n

\* budget_percentage <= limit.  A cost and a budget of opposite signs give a
\* negative percentage.
PercentageAtMost(item_cost, user_budget, group_size, limit) ==
  LET people == IF group_size > 1 THEN group_size ELSE 1
  IN  IF (user_budget > 0) # (item_cost > 0) THEN TRUE
      ELSE DoubleAtMost(BudgetPercentage(Magnitude(item_cost),
                                         Magnitude(user_budget), people), limit)

\* item_data.get("cost", 0).
ItemCost(item) == IF item.cost = NoNumber THEN <<0>> ELSE item.cost

\* The limits _budget_optimization compares budget_percentage with, and the
\* multiplier of the if/elif chain for a percentage that is at most the
\* limits in met and above the others.
BudgetLimits == {5, 15, 30, 50}

BudgetBand(met) ==
  IF 5 \in met THEN 15
  ELSE IF 15 \in met THEN 12
  ELSE IF 30 \in met THEN 10
  ELSE IF 50 \in met THEN 8
  ELSE 5

\* A variant of _budget_optimization whose last band returns 0.3.
BudgetOptimization_SteeperLastBand(item, user_budget, group_size) ==
  IF ~IsNumber(ItemCost(item)) THEN 10
  ELSE IF ItemCost(item)[1] = 0 THEN 10
  ELSE IF ~IsNumber(group_size) \/ ~IsNumber(user_budget) THEN 10
  ELSE IF user_budget[1] = 0 THEN 10
  ELSE LET met == { limit \in BudgetLimits :
                      PercentageAtMost(ItemCost(item)[1], user_budget[1],
                                       group_size[1], limit) }
       IN  IF 5 \in met THEN 15
           ELSE IF 15 \in met THEN 12
           ELSE IF 30 \in met THEN 10
           ELSE IF 50 \in met THEN 8
           ELSE 3

\* TravelAgent._budget_optimization.  The except clause returns 1.0 for a
\* cost float() rejects, a group size or budget that is not a number, and a
\* division by a zero budget.
BudgetOptimization(item, user_budget, group_size) ==
  IF ~IsNumber(ItemCost(item)) THEN 10
  ELSE IF ItemCost(item)[1] = 0 THEN 10
  ELSE IF ~IsNumber(group_size) \/ ~IsNumber(user_budget) THEN 10
  ELSE IF user_budget[1] = 0 THEN 10
  ELSE BudgetBand({ limit \in BudgetLimits :
                      PercentageAtMost(ItemCost(item)[1], user_budget[1],
                                       group_size[1], limit) })

\* round(x, 3) of a product of a score in ten-thousandths and two
\* multipliers in tenths.
Round3(millionths) == (millionths + 500) \div 1000

\* A variant of the scored entry whose final_score leaves the budget
\* multiplier out.
ScoredEntry_WithoutBudget(item, personalization_score, seasonal_multiplier, budget_multiplier) ==
  [name                  |-> item.name,
   rating                |-> item.rating,
   tags                  |-> item.tags,
   type                  |-> item.type,
   best_time_to_visit    |-> item.best_time_to_visit,
   cost                  |-> item.cost,
   city                  |-> item.city,
   state                 |-> item.state,
   personalization_score |-> Round3(personalization_score * 100),
   seasonal_multiplier   |-> seasonal_multiplier,
   budget_multiplier     |-> budget_multiplier,
   final_score           |-> Round3(personalization_score * seasonal_multiplier * 10)]

\* {**item, "personalization_score": ..., "seasonal_multiplier": ...,
\* "budget_multiplier": ..., "final_score": ...}.
ScoredEntry(item, personalization_score, seasonal_multiplier, budget_multiplier) ==
  [name                  |-> item.name,
   rating                |-> item.rating,
   tags                  |-> item.tags,
   type                  |-> item.type,
   best_time_to_visit    |-> item.best_time_to_visit,
   cost                  |-> item.cost,
   city                  |-> item.city,
   state                 |-> item.state,
   personalization_score |-> Round3(personalization_score * 100),
   seasonal_multiplier   |-> seasonal_multiplier,
   budget_multiplier     |-> budget_multiplier,
   final_score           |->
     Round3(personalization_score * seasonal_multiplier * budget_multiplier)]

\* One entry of scored_items: the item and its four score fields.
ScoredItem(item, user_data) ==
  ScoredEntry(item,
              EnhancedPersonalizationScore(item, user_data.personality_answers).value,
              SeasonalOptimization(item, user_data.start_date),
              BudgetOptimization(item, user_data.budget, user_data.num_of_travellers))

\* The try block of _get_personalized_recommendations raises on a budget or
\* group size that is null or no number (float(None), int("two")) and when
\* the scorer does.
PersonalizationRaises(items, user_data) ==
  \/ ~IsNumber(user_data.budget)
  \/ ~IsNumber(user_data.num_of_travellers)
  \/ \E item \in Range(items) :
       EnhancedPersonalizationScore(item, user_data.personality_answers) = Raised

\* sorted(scored_items, key=lambda x: x["final_score"], reverse=True).
SortedByFinalScore(scored_items) ==
  SortedByKeys(scored_items,
               [i \in 1..Len(scored_items) |-> scored_items[i].final_score])

\* TravelAgent._get_personalized_recommendations: `except Exception:
\* return items[:limit]`.
GetPersonalizedRecommendations(items, user_data, limit) ==
  IF PersonalizationRaises(items, user_data) THEN Take(items, limit)
  ELSE Take(SortedByFinalScore([i \in 1..Len(items) |->
                                  ScoredItem(items[i], user_data)]),
            limit)

(***************************************************************************)
(* get_enhanced_recommendations: classification, the trip profile, and the *)
(* state, city and landmark paths.  The texts of the result (descriptions, *)
(* messages, why_recommended) are left out.                                *)
(***************************************************************************)

\* The call sites of cities_collection.find / find_one after classification.
ScopeSites ==
  {"state_cities", "ai_cities", "city_doc", "nearby", "landmark_doc", "related"}

\* {"status": "error", "message": ...}; the message of the outer except
\* clause is "Error generating recommendations: " and the exception's text.
ErrorResult(message) == [status |-> "error", message |-> message]

GeneratingError == "Error generating recommendations"

\* place["city"] = city; place["state"] = state
Located(place, city, state) ==
  [name |-> place.name, rating |-> place.rating, tags |-> place.tags,
   type |-> place.type, best_time_to_visit |-> place.best_time_to_visit,
   cost |-> place.cost, city |-> city, state |-> state]

LocatedAll(places, city, state) ==
  [i \in 1..Len(places) |-> Located(places[i], city, state)]

\* float(p.get("rating", 0))
PlaceRating(place) == IF place.rating = Missing THEN 0 ELSE place.rating

\* sorted(places, key=lambda x: float(x.get("rating", 0)), reverse=True)
SortedByPlaceRating(places) ==
  SortedByKeys(places, [i \in 1..Len(places) |-> PlaceRating(places[i])])

\* cities_collection.find_one({"state": state, "city": city}): an exact
\* match on both fields; <<>> is None.
FindCityDoc(state, city) ==
  LET hits == { i \in 1..Len(catalog) :
                  catalog[i].state = state /\ catalog[i].city = city }
  IN  IF hits = {} THEN <<>> ELSE <<catalog[FirstIndex(hits)]>>

\* TravelAgent._get_state_recommendations; the catalog is read here and in
\* _ai_recommend_cities.
GetStateRecommendations(parsed_input, user_data, fails, response) ==
  LET state      == parsed_input.state
      all_cities == CityInfos(state, DefaultRating)
      ai_cities  == AiRecommendCitiesFrom(state, response)
  IN  IF "state_cities" \in fails \/ "ai_cities" \in fails THEN Raised
      ELSE IF ai_cities = Raise THEN Raised
      ELSE
        [status          |-> "success",
         input_type      |-> "state",
         parsed_input    |-> parsed_input,
         recommendations |->
           [cities |->
              [ai_recommended |-> ai_cities,
               popular        |-> Take(SortedByRating(all_cities), BucketSize),
               hidden_gems    |->
                 Take(SelectSeq(all_cities, LAMBDA c : c.rating < 40), BucketSize)]]]

\* The sizes of the city path's lists.
PersonalizedLimit == 8
NearbySize == 3

\* TravelAgent._get_nearby_cities: `except Exception: return []`.
GetNearbyCities(state, current_city, fails) ==
  IF "nearby" \in fails THEN <<>>
  ELSE Take(SortedByRating(SelectSeq(CityInfos(state, DefaultRating),
                                     LAMBDA c : Lower(c.name) # current_city)),
            NearbySize)

\* The "places" of a city result, lines 307-340: the buckets cut from the
\* located places and their personalized ranking.
CityPlaceBuckets(places, personalized_places) ==
  LET popular_places ==
        IF Len(personalized_places) > 0
        THEN Take(SelectSeq(personalized_places,
                            LAMBDA p : PlaceRating(p) >= 40), BucketSize)
        ELSE Take(SortedByPlaceRating(places), BucketSize)
      hidden_gem_places ==
        IF Len(personalized_places) > 0
        THEN Take(SelectSeq(personalized_places,
                            LAMBDA p : PlaceRating(p) < 40), BucketSize)
        ELSE Take(SelectSeq(places, LAMBDA p : PlaceRating(p) < 40), BucketSize)
  IN  [personalized |-> Take(personalized_places, BucketSize),
       popular      |-> popular_places,
       hidden_gems  |-> hidden_gem_places,
       all_places   |-> places]

\* TravelAgent._get_city_recommendations
GetCityRecommendations(parsed_input, user_data, fails) ==
  LET state == parsed_input.state
      city  == parsed_input.city
      found == FindCityDoc(state, city)
  IN  IF "city_doc" \in fails THEN Raised
      ELSE IF found = <<>> THEN ErrorResult("City not found")
      ELSE
        [status          |-> "success",
         input_type      |-> "city",
         parsed_input    |-> parsed_input,
         recommendations |->
           [city_info     |-> CityInfo(found[1], DefaultRating),
            places        |->
              CityPlaceBuckets(
                LocatedAll(found[1].places, city, state),
                GetPersonalizedRecommendations(
                  LocatedAll(found[1].places, city, state), user_data,
                  PersonalizedLimit)),
            nearby_cities |-> GetNearbyCities(state, city, fails)]]

\* The spelling of the type words, for the substring tests of
\* _get_related_cities.
TypeText(word) ==
  CASE word = "temple"        -> <<"t", "e", "m", "p", "l", "e">>
    [] word = "fort"          -> <<"f", "o", "r", "t">>
    [] word = "heritage_city" ->
         <<"h", "e", "r", "i", "t", "a", "g", "e", "_", "c", "i", "t", "y">>
    [] OTHER -> <<>>

\* The words of a list-valued type.
ListTypeWords == {"fort"}

\* any(t in city_type.lower() for t in landmark_type): over the words of a
\* list, over the characters of a string.
TypeSimilarity(landmark_type, city_type) ==
  IF city_type = AbsentWord \/ landmark_type = AbsentWord THEN FALSE
  ELSE IF landmark_type = ListType
  THEN \E t \in ListTypeWords :
         Contains(TypeText(WordLower(city_type)), TypeText(t))
  ELSE \E i \in 1..Len(TypeText(landmark_type)) :
         Contains(TypeText(WordLower(city_type)), <<TypeText(landmark_type)[i]>>)

\* TravelAgent._get_related_cities: `except Exception: return []`.
GetRelatedCities(state, current_city, landmark_data, fails) ==
  IF "related" \in fails THEN <<>>
  ELSE
    LET related(city_doc) ==
          /\ Lower(city_doc.city) # current_city
          /\ \/ landmark_data.tags \cap city_doc.city_tags # {}
             \/ TypeSimilarity(landmark_data.type, city_doc.city_type)
        docs == SelectSeq(CitiesOfState(state), related)
    IN  Take(SortedByRating([i \in 1..Len(docs) |-> CityInfo(docs[i], DefaultRating)]),
             NearbySize)

NearbyLimit == 6

\* TravelAgent._get_landmark_recommendations: the target is the last place
\* of the landmark's name, and the score of the target is computed outside
\* any try block.
GetLandmarkRecommendations(parsed_input, user_data, fails) ==
  LET state    == parsed_input.state
      city     == parsed_input.city
      landmark == parsed_input.landmark
      found    == FindCityDoc(state, city)
  IN  IF "landmark_doc" \in fails THEN Raised
      ELSE IF found = <<>> THEN ErrorResult("City not found")
      ELSE
        LET city_doc == found[1]
            places   == city_doc.places
            targets  == { i \in 1..Len(places) :
                            Lower(places[i].name) = Lower(landmark) }
        IN  IF targets = {} THEN ErrorResult("Landmark not found")
            ELSE
              LET last == CHOOSE i \in targets : \A j \in targets : j <= i
                  target_place == Located(places[last], city, state)
                  other_places ==
                    LocatedAll(SelectSeq(places,
                                 LAMBDA p : Lower(p.name) # Lower(landmark)),
                               city, state)
                  personalized_nearby ==
                    GetPersonalizedRecommendations(other_places, user_data, NearbyLimit)
                  landmark_score ==
                    EnhancedPersonalizationScore(target_place,
                                                 user_data.personality_answers)
              IN  IF landmark_score = Raised THEN Raised
                  ELSE
                    [status          |-> "success",
                     input_type      |-> "landmark",
                     parsed_input    |-> parsed_input,
                     recommendations |->
                       [highlighted_landmark |->
                          [name   |-> target_place.name,
                           rating |-> PlaceRating(target_place),
                           personalization_score |->
                             Round3(landmark_score.value * 100)],
                        nearby_places |->
                          [personalized |-> Take(personalized_nearby, NearbySize),
                           all |-> Take(SortedByPlaceRating(other_places), BucketSize)],
                        related_cities |->
                          GetRelatedCities(state, city, target_place, fails)]]

\* TravelAgent.get_enhanced_recommendations.  When the trip store raises,
\* get_user_profile returns a text that json.loads rejects.
\* `except Exception as e: return {"status": "error", ...}`, lines 246-247.
ErrorIfRaised(outcome) ==
  IF outcome = Raised THEN ErrorResult(GeneratingError) ELSE outcome

\* Lines 229-244: the profile, and the path of the input type.
RecommendationsFor(trip_doc, parsed_input, fails, response) ==
  IF parsed_input = Raised THEN Raised
  ELSE IF "trip_profile" \in fails THEN Raised
  ELSE IF ~trip_doc.found THEN ErrorResult("User not found in database")
  ELSE
    CASE parsed_input.input_type = "state" ->
           GetStateRecommendations(parsed_input, GetUserProfile(trip_doc),
                                   fails, response)
      [] parsed_input.input_type = "city" ->
           GetCityRecommendations(parsed_input, GetUserProfile(trip_doc), fails)
      [] parsed_input.input_type = "landmark" ->
           GetLandmarkRecommendations(parsed_input, GetUserProfile(trip_doc), fails)
      [] OTHER -> ErrorResult("Unable to parse destination input")

GetEnhancedRecommendations(trip_doc, destination_input, fails, response) ==
  ErrorIfRaised(RecommendationsFor(trip_doc,
                                   ParseDestinationInput(destination_input, fails),
                                   fails, response))

(***************************************************************************)
(* The specification of get_enhanced_recommendations: a catalog whose      *)
(* names are stored in lower case, so that the scope lookups find what the *)
(* classifier resolved, or capitalised as src/data_extraction.py writes    *)
(* them; a trip as sync_trip stores it; calls with a query, the catalog    *)
(* queries that fail during the call, and the LLM's response.              *)
(***************************************************************************)

Fort   == Place(<<"z">>, 35)
Temple == [Place(<<"T", "x">>, 45) EXCEPT !.type = "temple", !.tags = {"famous"}]

EnhancedDocs ==
  { Doc(city, <<"r", "j">>, places, rating, {}, AbsentWord) :
      city \in {<<"a", "b">>, <<"c">>}, places \in {<<>>, <<Fort, Temple>>},
      rating \in {35, 45} }
  \cup { Doc(<<"A", "b">>, <<"R", "j">>, <<Fort, Temple>>, Missing, {}, AbsentWord) }

\* One document per state and city.
EnhancedCatalogs ==
  { docs \in SeqsUpTo(EnhancedDocs, MaxDocs) :
      \A i, j \in 1..Len(docs) :
        (docs[i].state = docs[j].state /\ docs[i].city = docs[j].city) => i = j }

EnhancedQueries ==
  { <<"a", "b">>, <<"R", "j">>, <<"T", "x">>, <<"z">>, <<"q">> }

\* The failures of one call: none, one site, the classifier's queries, the
\* whole catalog.
EnhancedFails ==
  {{}} \cup { {site} : site \in ClassifySites \cup ScopeSites \cup {"trip_profile"} }
       \cup {ClassifySites, ClassifySites \cup ScopeSites}

EnhancedResponses ==
  {LlmResponse(ArrayOfCities(<<>>), FALSE),
   LlmResponse(ArrayOfCities(<< <<"a", "b">>, <<"c">> >>), FALSE),
   LlmResponse(JsonArray(<<JsonString(2)>>), FALSE)}

EnhancedPrefs ==
  Prefs("sightseeing", "outdoor", AbsentWord, AbsentWord, "culture enthusiast")

InitEnhanced ==
  /\ catalog \in EnhancedCatalogs
  /\ trip \in {NoTrip, TripDoc(<<"r", "j">>, EnhancedPrefs)}
  /\ call = NoCall
  /\ result = NoResult
  /\ seen = NothingSeen

\* A variant of the call that sorts the places of every city document by
\* rating and stores the documents.
Enhanced_StoresSortedPlaces(query, fails, response) ==
  /\ call' = [op |-> "enhanced", query |-> query, fails |-> fails,
              response |-> response]
  /\ result' = GetEnhancedRecommendations(trip, query, fails, response)
  /\ catalog' = [i \in 1..Len(catalog) |->
                   [catalog[i] EXCEPT !.places =
                      SortedByKeys(@, [k \in 1..Len(@) |-> @[k].rating])]]
  /\ UNCHANGED <<trip, seen>>

\* A variant of the call that stores the city and state keys it sets on
\* the places of every city document.
Enhanced_StoresLocatedPlaces(query, fails, response) ==
  /\ call' = [op |-> "enhanced", query |-> query, fails |-> fails,
              response |-> response]
  /\ result' = GetEnhancedRecommendations(trip, query, fails, response)
  /\ catalog' = [i \in 1..Len(catalog) |->
                   [city |-> catalog[i].city, state |-> catalog[i].state,
                    places |-> LocatedAll(catalog[i].places, catalog[i].city,
                                          catalog[i].state),
                    city_rating |-> catalog[i].city_rating,
                    city_tags |-> catalog[i].city_tags,
                    city_type |-> catalog[i].city_type]]
  /\ UNCHANGED <<trip, seen>>

\* A call of get_enhanced_recommendations(user_id, trip_id, query).
Enhanced(query, fails, response) ==
  /\ call' = [op |-> "enhanced", query |-> query, fails |-> fails,
              response |-> response]
  /\ result' = GetEnhancedRecommendations(trip, query, fails, response)
  /\ UNCHANGED <<catalog, trip, seen>>

NextEnhanced ==
  \/ /\ call = NoCall
     /\ \E query \in EnhancedQueries, fails \in EnhancedFails,
           response \in EnhancedResponses : Enhanced(query, fails, response)
  \/ Return

SpecEnhanced == InitEnhanced /\ [][NextEnhanced]_vars

\* A catalog query of the classifier was made and failed.
ClassifyQueryFailed(query, fails) ==
  LET input_lower == Lower(Strip(query))
      city     == FindCityQueries(input_lower, fails)
      state    == FindStateQueries(input_lower, fails)
      landmark == FindLandmarkScan(input_lower, fails)
  IN  /\ RegexValid(input_lower)
      /\ \/ city = Raise
         \/ /\ city = <<>>
            /\ \/ state = Raise
               \/ state = <<>> /\ landmark = Raise

\* A catalog query of the path taken after classification was made and
\* failed.
ScopeQueryFailed(query, fails) ==
  LET parsed_input == ParseDestinationInput(query, fails)
  IN  /\ parsed_input # Raised
      /\ \/ /\ parsed_input.input_type = "state"
            /\ {"state_cities", "ai_cities"} \cap fails # {}
         \/ /\ parsed_input.input_type = "city"
            /\ \/ "city_doc" \in fails
               \/ /\ "nearby" \in fails
                  /\ FindCityDoc(parsed_input.state, parsed_input.city) # <<>>
         \/ /\ parsed_input.input_type = "landmark"
            /\ \/ "landmark_doc" \in fails
               \/ /\ "related" \in fails
                  /\ GetLandmarkRecommendations(parsed_input, GetUserProfile(trip),
                                                fails \ {"related"})
                       \notin {Raised, ErrorResult("City not found"),
                               ErrorResult("Landmark not found")}

\* C6: when a catalog query made while get_enhanced_recommendations handles
\* a call is unavailable, a query of the classifier included, the call ends
\* in the error of a failed call, which is neither the "not found" outcome
\* of a miss nor a success with empty buckets.  Stated for the calls that
\* read a stored trip profile, the ones that go on to a scope.
C6_CatalogFailureIsError ==
  (/\ call.op = "enhanced"
   /\ trip.found
   /\ "trip_profile" \notin call.fails
   /\ \/ ClassifyQueryFailed(call.query, call.fails)
      \/ ScopeQueryFailed(call.query, call.fails))
  => result = ErrorResult(GeneratingError)

\* The names of a bucket.
BucketNames(bucket) == { item.name : item \in Range(bucket) }

PairwiseDisjoint(a, b, c) ==
  /\ BucketNames(a) \cap BucketNames(b) = {}
  /\ BucketNames(a) \cap BucketNames(c) = {}
  /\ BucketNames(b) \cap BucketNames(c) = {}

\* C8: in every success result of get_enhanced_recommendations a name is in
\* at most one bucket: of ai_recommended, popular and hidden_gems for a
\* state, of personalized, popular and hidden_gems for a city.
C8_OneBucketPerName ==
  (call.op = "enhanced" /\ result.status = "success") =>
    /\ result.input_type = "state" =>
         LET cities == result.recommendations.cities
         IN  PairwiseDisjoint(cities.ai_recommended, cities.popular, cities.hidden_gems)
    /\ result.input_type = "city" =>
         LET places == result.recommendations.places
         IN  PairwiseDisjoint(places.personalized, places.popular, places.hidden_gems)

(***************************************************************************)
(* The ranking specification: calls of _seasonal_optimization, of          *)
(* _budget_optimization and of _get_personalized_recommendations on items, *)
(* dates, budgets and group sizes, the missing, zero, negative and         *)
(* unparsable ones among them.                                             *)
(***************************************************************************)

\* The longest item list a call of the ranking specification ranks.
MaxItems == 3

Space == <<" ">>

\* Texts of best_time_to_visit: none, seasons, month names, both, neither.
RankBestTimes ==
  {<<>>, Winter, <<"W">> \o Tail(Winter), Summer, Monsoon,
   Winter \o Space \o <<"a", "n", "d">> \o Space \o Monsoon,
   MonthName(10) \o Space \o <<"t", "o">> \o Space \o MonthName(3),
   MonthName(7) \o <<",">> \o Space \o Monsoon,
   MonthName(1) \o Space \o <<"o", "r">> \o Space \o Summer,
   <<"a", "l", "l">> \o Space \o <<"y", "e", "a", "r">>}

\* start_date: None, a text strptime rejects (month 0), a date of a month.
RankDates == {NoNumber} \cup { <<m>> : m \in 0..12 }

RankCosts ==
  {NoNumber, NotANumber, <<0>>, <<-100>>, <<27>>, <<54>>, <<500>>, <<1500>>,
   <<3000>>, <<5000>>, <<5001>>}

RankBudgets ==
  {NoNumber, NotANumber, <<0>>, <<-10000>>, <<18>>, <<36>>, <<10000>>}

RankGroupSizes == {NoNumber, NotANumber, <<-1>>, <<0>>, <<1>>, <<2>>, <<5>>}

\* An item as the ranking reads it.
RankItem(name, rating, tags, type, best_time, cost) ==
  [name |-> name, rating |-> rating, tags |-> tags, type |-> type,
   best_time_to_visit |-> best_time, cost |-> cost,
   city |-> <<"a", "b">>, state |-> <<"r", "j">>]

\* Items to rank: two that differ in name only, one without tags, season
\* or cost, one without a rating, one whose cost is no number, and one
\* whose type is a list.
RankItems ==
  {RankItem(<<"a">>, 45, {"Adventure"}, "fort", Winter, <<500>>),
   RankItem(<<"b">>, 45, {"Adventure"}, "fort", Winter, <<500>>),
   RankItem(<<"c">>, 30, {}, AbsentWord, <<>>, NoNumber),
   RankItem(<<"d">>, Missing, {"spa"}, "resort", MonthName(7), <<5001>>),
   RankItem(<<"e">>, 50, {"heritage"}, "temple", Monsoon, NotANumber),
   RankItem(<<"f">>, 48, {"famous"}, ListType, Summer, <<1500>>)}

\* The lists to rank: a list holds an item once.
RankLists ==
  { items \in SeqsUpTo(RankItems, MaxItems) :
      \A i, j \in 1..Len(items) : items[i] = items[j] => i = j }

UserData(prefs, budget, start_date, group_size) ==
  [personality_answers |-> prefs, budget |-> budget,
   start_date |-> start_date, num_of_travellers |-> group_size]

RankPrefs == Prefs("Exploring", "outdoor", AbsentWord, AbsentWord, "adventure seeker")

\* Profiles: January and July trips, budgets that put item costs in
\* different bands, and profiles whose budget, group size or preference
\* makes the ranking raise.
RankUserData ==
  {UserData(NoPrefs, <<10000>>, NoNumber, <<1>>),
   UserData(RankPrefs, <<10000>>, <<1>>, <<2>>),
   UserData(RankPrefs, <<1000>>, <<7>>, <<1>>),
   UserData(RankPrefs, <<-10000>>, <<0>>, <<0>>),
   UserData(RankPrefs, <<0>>, <<7>>, <<5>>),
   UserData(RankPrefs, NoNumber, <<1>>, <<1>>),
   UserData(RankPrefs, <<10000>>, <<1>>, NotANumber),
   UserData(Prefs(NullWord, "outdoor", AbsentWord, AbsentWord, AbsentWord),
            <<10000>>, <<1>>, <<1>>)}

RankLimits == {2, PersonalizedLimit}

InitRank ==
  /\ catalog = <<>>
  /\ trip = NoTrip
  /\ call = NoCall
  /\ result = NoResult
  /\ seen = NothingSeen

\* TravelAgent._get_season, of strftime("%B") of month m: the lists name
\* March to May and June to September, every other month is winter.
GetSeason(m) ==
  IF m \in {3, 4, 5} THEN Summer
  ELSE IF m \in {6, 7, 8, 9} THEN Monsoon
  ELSE Winter

\* A call of _get_season(month).
Season(m) ==
  /\ call' = [op |-> "get_season", month |-> m]
  /\ result' = [value |-> GetSeason(m)]
  /\ UNCHANGED <<catalog, trip, seen>>

\* A call of _seasonal_optimization(item, {"start_date": start_date}).
Seasonal(best_time, start_date) ==
  /\ call' = [op |-> "seasonal", best_time |-> best_time, start_date |-> start_date]
  /\ result' = [value |-> SeasonalOptimization([best_time_to_visit |-> best_time],
                                               start_date)]
  /\ UNCHANGED <<catalog, trip, seen>>

\* A call of _budget_optimization(item, user_budget, group_size).
Budget(cost, user_budget, group_size) ==
  /\ call' = [op |-> "budget", cost |-> cost, user_budget |-> user_budget,
              group_size |-> group_size]
  /\ result' = [value |-> BudgetOptimization([cost |-> cost], user_budget, group_size)]
  /\ UNCHANGED <<catalog, trip, seen>>

\* A call of _get_personalized_recommendations(items, user_data, limit).
Personalize(items, user_data, limit) ==
  /\ call' = [op |-> "personalize", items |-> items, user_data |-> user_data,
              limit |-> limit]
  /\ result' = [items |-> GetPersonalizedRecommendations(items, user_data, limit)]
  /\ UNCHANGED <<catalog, trip, seen>>

NextRank ==
  \/ /\ call = NoCall
     /\ \E best_time \in RankBestTimes, start_date \in RankDates :
          Seasonal(best_time, start_date)
  \/ /\ call = NoCall
     /\ \E m \in 1..12 : Season(m)
  \/ /\ call = NoCall
     /\ \E cost \in RankCosts, user_budget \in RankBudgets,
           group_size \in RankGroupSizes :
          Budget(cost, user_budget, group_size)
  \/ /\ call = NoCall
     /\ \E items \in RankLists, user_data \in RankUserData,
           limit \in RankLimits :
          Personalize(items, user_data, limit)
  \/ Return

SpecRank == InitRank /\ [][NextRank]_vars

\* The entries of a ranking result that carry score fields.
IsScored(item) == "final_score" \in DOMAIN item

\* C11: for every item, start date, user budget and group size, the missing,
\* zero, negative and unparsable ones included, _seasonal_optimization and
\* _budget_optimization each return a value in [0.5,1.5], and every
\* final_score _get_personalized_recommendations computes is in [0,2.25].
C11_MultipliersAndFinalScoreBounded ==
  /\ call.op \in {"seasonal", "budget"} => result.value \in 5..15
  /\ call.op = "personalize" =>
       \A i \in 1..Len(result.items) :
         IsScored(result.items[i]) =>
           /\ result.items[i].seasonal_multiplier \in 5..15
           /\ result.items[i].budget_multiplier \in 5..15
           /\ result.items[i].final_score \in 0..2250

\* A ranking under a negative budget, an unparsable start date and a group
\* of zero that scored an item with a cost.
C11_Witness ==
  /\ call.op = "personalize"
  /\ call.user_data.budget = <<-10000>>
  /\ call.user_data.start_date = <<0>>
  /\ \E i \in 1..Len(result.items) :
       /\ IsScored(result.items[i])
       /\ result.items[i].cost = <<500>>
       /\ result.items[i].budget_multiplier = 15
       /\ result.items[i].seasonal_multiplier = 10
       /\ result.items[i].final_score > 0

\* The months of a season's range.
SeasonMonths(season) ==
  CASE season = Winter  -> {12, 1, 2}
    [] season = Summer  -> {3, 4, 5}
    [] season = Monsoon -> {6, 7, 8, 9}

\* The seasons a text names.
NamedSeasons(best_time) ==
  { season \in {Winter, Summer, Monsoon} : Contains(Lower(best_time), season) }

\* C12: _seasonal_optimization follows the table: no start date, an
\* unparsable one or an empty best_time_to_visit gives 1.0; the travel
\* month's name in the text gives 1.5, before any season rule; otherwise a
\* text that names winter, summer or monsoon gives 1.3 when the month lies
\* in the range of a season it names and 0.7 when it lies in none; otherwise
\* 1.0.  "winter" gives 1.3 for January and 0.7 for July.
C12_SeasonalTable ==
  call.op = "seasonal" =>
    LET best_time == call.best_time
        dated     == call.start_date # NoNumber /\ call.start_date[1] \in 1..12
        month     == call.start_date[1]
    IN  /\ (~dated \/ best_time = <<>>) => result.value = 10
        /\ (dated /\ best_time # <<>>) =>
             /\ Contains(Lower(best_time), MonthName(month)) => result.value = 15
             /\ ~Contains(Lower(best_time), MonthName(month)) =>
                  /\ (\E season \in NamedSeasons(best_time) :
                        month \in SeasonMonths(season)) => result.value = 13
                  /\ (/\ NamedSeasons(best_time) # {}
                      /\ \A season \in NamedSeasons(best_time) :
                           month \notin SeasonMonths(season)) => result.value = 7
                  /\ NamedSeasons(best_time) = {} => result.value = 10
        /\ (best_time = Winter /\ call.start_date = <<1>>) => result.value = 13
        /\ (best_time = Winter /\ call.start_date = <<7>>) => result.value = 7

\* The month rule winning over the season rule: January, for a text that
\* names January and summer.
C12_Witness ==
  /\ call.op = "seasonal"
  /\ call.start_date = <<1>>
  /\ Contains(call.best_time, MonthName(1))
  /\ NamedSeasons(call.best_time) = {Summer}
  /\ result.value = 15

\* budgetPercentage <= limit for the exact quotient
\* (cost / max(groupSize, 1)) / userBudget * 100, budget not zero.
ExactPercentageAtMost(cost, user_budget, group_size, limit) ==
  LET people == IF group_size > 1 THEN group_size ELSE 1
  IN  IF user_budget > 0
      THEN cost * 100 <= limit * people * user_budget
      ELSE cost * 100 >= limit * people * user_budget

\* The step function of the exact percentage.
ExactBand(cost, user_budget, group_size) ==
  IF ExactPercentageAtMost(cost, user_budget, group_size, 5) THEN 15
  ELSE IF ExactPercentageAtMost(cost, user_budget, group_size, 15) THEN 12
  ELSE IF ExactPercentageAtMost(cost, user_budget, group_size, 30) THEN 10
  ELSE IF ExactPercentageAtMost(cost, user_budget, group_size, 50) THEN 8
  ELSE 5

\* C13: _budget_optimization is the step function of budgetPercentage =
\* (cost / max(groupSize, 1)) / userBudget x 100: a cost of 0 or a missing
\* cost gives 1.0; otherwise <= 5 gives 1.5, <= 15 gives 1.2, <= 30 gives
\* 1.0, <= 50 gives 0.8 and > 50 gives 0.5, a percentage of exactly 5, 15,
\* 30 or 50 falling in the cheaper band.  Cost 500, group size 2 and budget
\* 10000 give 1.5.
C13_BudgetStepFunction ==
  call.op = "budget" =>
    /\ call.cost \in {NoNumber, <<0>>} => result.value = 10
    /\ (/\ IsNumber(call.cost) /\ call.cost[1] # 0
        /\ IsNumber(call.user_budget) /\ call.user_budget[1] # 0
        /\ IsNumber(call.group_size)) =>
         result.value = ExactBand(call.cost[1], call.user_budget[1], call.group_size[1])
    /\ (call.cost = <<500>> /\ call.group_size = <<2>> /\ call.user_budget = <<10000>>)
         => result.value = 15

\* The scope a call without failures resolves to has no candidates: a state
\* without city documents, a city document without places, or a state and
\* city that name no document.
EmptyScope(query) ==
  LET parsed_input == ParseDestinationInput(query, {})
  IN  /\ parsed_input # Raised
      /\ \/ /\ parsed_input.input_type = "state"
            /\ CitiesOfState(parsed_input.state) = <<>>
         \/ /\ parsed_input.input_type \in {"city", "landmark"}
            /\ FindCityDoc(parsed_input.state, parsed_input.city) = <<>>
         \/ /\ parsed_input.input_type = "city"
            /\ FindCityDoc(parsed_input.state, parsed_input.city) # <<>>
            /\ FindCityDoc(parsed_input.state, parsed_input.city)[1].places = <<>>

\* Every bucket of a success result is an empty list.
AllBucketsEmpty(outcome) ==
  CASE outcome.input_type = "state" ->
         LET cities == outcome.recommendations.cities
         IN  cities.ai_recommended = <<>> /\ cities.popular = <<>>
               /\ cities.hidden_gems = <<>>
    [] outcome.input_type = "city" ->
         LET places == outcome.recommendations.places
         IN  places.personalized = <<>> /\ places.popular = <<>>
               /\ places.hidden_gems = <<>>
    [] outcome.input_type = "landmark" ->
         LET nearby == outcome.recommendations.nearby_places
         IN  nearby.personalized = <<>> /\ nearby.all = <<>>

\* C14: when the scope a query resolves to has no candidates (a state with
\* no city records, a city record with no places, a scope that names no
\* catalog record), get_enhanced_recommendations returns a success result
\* whose buckets are all empty lists, never an error status.
C14_EmptyScopeIsEmptySuccess ==
  (/\ call.op = "enhanced"
   /\ call.fails = {}
   /\ trip.found
   /\ EmptyScope(call.query))
  => /\ result.status = "success"
     /\ AllBucketsEmpty(result)

\* C15: whenever parse_destination_input classifies a query as a city or a
\* landmark, the state, city and landmark it returns identify a record the
\* lookup of _get_city_recommendations / _get_landmark_recommendations
\* finds: get_enhanced_recommendations answers neither "City ... not found"
\* nor "Landmark ... not found" for a scope the classifier produced from
\* the same catalog.
C15_ClassifiedScopeIsFound ==
  (/\ call.op = "enhanced"
   /\ call.fails = {}
   /\ trip.found
   /\ ParseDestinationInput(call.query, {}) # Raised
   /\ ParseDestinationInput(call.query, {}).input_type \in {"city", "landmark"})
  => /\ result # ErrorResult("City not found")
     /\ result # ErrorResult("Landmark not found")

\* The places (document, position) whose lower-cased name contains the
\* query, is contained in it, or contains one of its words.
MatchingPlaces(q) ==
  { ij \in UNION { {i} \X (1..Len(catalog[i].places)) : i \in 1..Len(catalog) } :
      LET place_name == Lower(catalog[ij[1]].places[ij[2]].name)
      IN  \/ Contains(place_name, q)
          \/ Contains(q, place_name)
          \/ \E word \in Words(q) : Contains(place_name, word) }

\* The first of them in scan order: documents in catalog order, places in
\* document order.
FirstMatchingPlace(q) ==
  CHOOSE x \in MatchingPlaces(q) :
    \A y \in MatchingPlaces(q) : x[1] < y[1] \/ (x[1] = y[1] /\ x[2] <= y[2])

\* C16: a landmark matches when the normalized query is a substring of a
\* place name, the place name is a substring of the query, or a word of the
\* query occurs in the place name; the first matching place in scan order
\* is taken, and the classification is Landmark with confidence 0.7, state
\* and city lower-cased from the document that owns the place.  Which
\* queries get as far as the landmark step is C1's matter: here it is the
\* queries for which the city and state lookups returned nothing.
C16_FirstLandmarkMatch ==
  (call.op = "parse" /\ "landmark_scan" \notin call.fails) =>
    LET q == NormalizedQuery
    IN  /\ (result # Raised /\ result.input_type = "landmark") =>
             /\ MatchingPlaces(q) # {}
             /\ result.confidence = 7
             /\ result.state = Lower(catalog[FirstMatchingPlace(q)[1]].state)
             /\ result.city = Lower(catalog[FirstMatchingPlace(q)[1]].city)
             /\ result.landmark =
                  catalog[FirstMatchingPlace(q)[1]].places[FirstMatchingPlace(q)[2]].name
        /\ (/\ FindCityInMongodb(q, call.fails) = <<>>
            /\ FindStateInMongodb(q, call.fails) = <<>>
            /\ MatchingPlaces(q) # {})
           => (result # Raised /\ result.input_type = "landmark")

\* A query matched by one of its words only, in places of two documents of
\* different cities: the first document's place is the landmark.
C16_Witness ==
  /\ call.op = "parse"
  /\ call.fails = {}
  /\ result # Raised
  /\ result.input_type = "landmark"
  /\ \E x, y \in MatchingPlaces(NormalizedQuery) :
       /\ x[1] < y[1]
       /\ catalog[x[1]].city # catalog[y[1]].city
       /\ ~Contains(Lower(catalog[x[1]].places[x[2]].name), NormalizedQuery)
       /\ ~Contains(NormalizedQuery, Lower(catalog[x[1]].places[x[2]].name))

\* A profile with its null answers taken out.
WithoutNullAnswers(prefs) ==
  [key \in DOMAIN prefs |-> IF prefs[key] = NullWord THEN AbsentWord ELSE prefs[key]]

\* C17: a missing or unexpected preference value (an absent key, an unknown
\* answer, a value that is no string, such as null) is no signal: its term
\* contributes 0.0, the other terms and the rating bonus are computed, and
\* the ranked list is produced with scores.  Stated for rankings whose
\* budget and group size are numbers and whose items have a text type: the
\* result is the scored list the same profile without its null answers
\* gets.
C17_MalformedPreferenceIsNoSignal ==
  (/\ call.op = "personalize"
   /\ IsNumber(call.user_data.budget)
   /\ IsNumber(call.user_data.num_of_travellers)
   /\ \A i \in 1..Len(call.items) : call.items[i].type # ListType)
  => /\ \A i \in 1..Len(result.items) : IsScored(result.items[i])
     /\ result.items =
          GetPersonalizedRecommendations(
            call.items,
            [call.user_data EXCEPT
               !.personality_answers = WithoutNullAnswers(@)],
            call.limit)

\* C18: a malformed AI-shortlist payload never becomes an error: for every
\* response text of the LLM (no JSON, an object instead of an array, an
\* array whose elements are no objects, a scalar) _ai_recommend_cities
\* yields a list, empty when nothing usable was parsed, and
\* generate_initial_recommendations still saves its popular and hidden-gem
\* buckets and returns success.  Stated for a stored trip whose state holds
\* no city that makes _popular_cities raise.
C18_MalformedShortlistIsNoError ==
  (/\ call.op = "generate_initial"
   /\ trip.found
   /\ ~PopularCitiesRaises(trip.tripData.destination))
  => /\ result.status = "success"
     /\ trip.initialItinerary # NoItinerary
     /\ call.response.json.kind # "array" =>
          trip.initialItinerary.cities.ai_recommended = <<>>

\* A scored entry without its score fields.
Unscored(entry) ==
  [name |-> entry.name, rating |-> entry.rating, tags |-> entry.tags,
   type |-> entry.type, best_time_to_visit |-> entry.best_time_to_visit,
   cost |-> entry.cost, city |-> entry.city, state |-> entry.state]

\* The ways to read a ranked list as a selection of the input: entry k of
\* the list is item origin[k] of the input, no item taken twice.
Origins(ranked, items) ==
  { origin \in [1..Len(ranked) -> 1..Len(items)] :
      /\ \A k, l \in 1..Len(ranked) : origin[k] = origin[l] => k = l
      /\ \A k \in 1..Len(ranked) : Unscored(ranked[k]) = items[origin[k]] }

\* C19: _get_personalized_recommendations returns its items in descending
\* order of final_score, items of equal final_score in the order they had
\* in the input list; the list is cut to the limit after the sort, so an
\* item left out ranks behind every item kept.  Stated for the rankings
\* that score their items.
C19_DescendingStable ==
  (/\ call.op = "personalize"
   /\ \A k \in 1..Len(result.items) : IsScored(result.items[k]))
  => LET ranked == result.items
     IN  /\ Len(ranked) = IF Len(call.items) < call.limit
                          THEN Len(call.items) ELSE call.limit
         /\ \A k \in 1..(Len(ranked) - 1) :
              ranked[k].final_score >= ranked[k + 1].final_score
         /\ \E origin \in Origins(ranked, call.items) :
              /\ \A k, l \in 1..Len(ranked) :
                   (k < l /\ ranked[k].final_score = ranked[l].final_score)
                     => origin[k] < origin[l]
              /\ \A j \in 1..Len(call.items) :
                   (\A k \in 1..Len(ranked) : origin[k] # j) =>
                     \A k \in 1..Len(ranked) :
                       LET left_out == ScoredItem(call.items[j], call.user_data)
                       IN  \/ ranked[k].final_score > left_out.final_score
                           \/ /\ ranked[k].final_score = left_out.final_score
                              /\ origin[k] < j

\* A ranking of three items that moved the first item of the input behind
\* two items of equal final_score and different names, which kept their
\* order.
C19_Witness ==
  /\ call.op = "personalize"
  /\ Len(call.items) = 3
  /\ Len(result.items) = 3
  /\ \A k \in 1..3 : IsScored(result.items[k])
  /\ result.items[1].final_score = result.items[2].final_score
  /\ result.items[2].final_score > result.items[3].final_score
  /\ result.items[1].name # result.items[2].name
  /\ Unscored(result.items[1]) = call.items[2]
  /\ Unscored(result.items[2]) = call.items[3]
  /\ Unscored(result.items[3]) = call.items[1]

(***************************************************************************)
(* Repeated calls of get_enhanced_recommendations: the caller keeps the    *)
(* response it got and asks again.                                         *)
(***************************************************************************)

RepeatFails == {{}, {"city_doc"}}

RepeatResponses ==
  {LlmResponse(ArrayOfCities(<<>>), FALSE),
   LlmResponse(ArrayOfCities(<< <<"a", "b">>, <<"c">> >>), FALSE)}

InitRepeat == InitEnhanced

\* The response reaches the caller, who keeps it with the request; the
\* program keeps nothing of either.
Deliver ==
  /\ call # NoCall
  /\ seen' = [call |-> call, result |-> result]
  /\ call' = NoCall
  /\ result' = NoResult
  /\ UNCHANGED <<catalog, trip>>

NextRepeat ==
  \/ /\ call = NoCall
     /\ \E query \in EnhancedQueries, fails \in RepeatFails,
           response \in RepeatResponses : Enhanced(query, fails, response)
  \/ Deliver

SpecRepeat == InitRepeat /\ [][NextRepeat]_vars

PlacesAsStored ==
  \A i \in 1..Len(catalog) : \A k \in 1..Len(catalog[i].places) :
    DOMAIN catalog[i].places[k] = DOMAIN Place(<<>>, Missing)

\* C21: classification and the state, city and landmark paths of
\* get_enhanced_recommendations leave the cities collection as it was; the
\* city and state keys set on places are in the response only, never in a
\* stored place.
C21_CatalogReadOnly == [][catalog' = catalog /\ PlacesAsStored']_vars

\* A city response whose places carry city and state, over a catalog whose
\* places do not.
C21_Witness ==
  /\ call.op = "enhanced"
  /\ "recommendations" \in DOMAIN result
  /\ result.input_type = "city"
  /\ Len(result.recommendations.places.all_places) > 0
  /\ \A k \in 1..Len(result.recommendations.places.all_places) :
       "city" \in DOMAIN result.recommendations.places.all_places[k]
  /\ PlacesAsStored

\* C22: in every result of parse_destination_input, city is set (not None)
\* exactly for the types city and landmark, landmark exactly for the type
\* landmark, state always; the confidence is 0.9 for a city, 0.7 for a
\* landmark, 0.8 or 0.3 for a state.
C22_FieldsFollowType ==
  (call.op = "parse" /\ "input_type" \in DOMAIN result) =>
    /\ result.input_type \in {"city", "state", "landmark"}
    /\ (result.city # None) <=> (result.input_type \in {"city", "landmark"})
    /\ (result.landmark # None) <=> (result.input_type = "landmark")
    /\ result.state # None
    /\ result.input_type = "city" => result.confidence = 9
    /\ result.input_type = "landmark" => result.confidence = 7
    /\ result.input_type = "state" => result.confidence \in {8, 3}

\* A landmark result, with its city and its landmark.
C22_Witness ==
  /\ call.op = "parse"
  /\ "input_type" \in DOMAIN result
  /\ result.input_type = "landmark"
  /\ result.city # None
  /\ result.landmark # None
  /\ result.confidence = 7

(***************************************************************************)
(* The HTTP handlers of src/main.py: sync_trip copies the Firestore        *)
(* documents of a trip into trip_requests and stores the recommendations   *)
(* for its destination, get_itinerary returns what is stored, and          *)
(* /get_enhanced_recommendations answers one query.  One user and trip.    *)
(***************************************************************************)

\* A Firestore document that does not exist, and the two that sync_trip
\* reads: the user's (travelPreferences) and the trip's (its fields, the
\* numbers as optional values, an absent or empty destination as <<>>).
NoDocument == [exists |-> FALSE]

UserDocument(travel_preferences) ==
  [exists |-> TRUE, travelPreferences |-> travel_preferences]

TripDocument(destination, budget, start_date, num_travelers) ==
  [exists |-> TRUE,
   data   |-> [destination |-> destination, budget |-> budget,
               start_date |-> start_date, num_travelers |-> num_travelers]]

Firestore(user_doc, trip_doc) == [user |-> user_doc, trip |-> trip_doc]

\* raise HTTPException(status_code=..., detail=...), and a returned body.
HttpException(status_code, detail) == [status_code |-> status_code, detail |-> detail]

Ok(body) == [status_code |-> 200, body |-> body]

\* `except Exception as e: raise HTTPException(status_code=500,
\* detail=str(e))` around a handler's body: HTTPException is an Exception,
\* so the handler's own 4xx is caught with everything else.
ExceptException(outcome) ==
  IF "detail" \in DOMAIN outcome THEN HttpException(500, outcome.detail)
  ELSE outcome

\* The document of trip_requests after the upsert of lines 70-74: the
\* fields of $set replace the stored ones, the others stay.
StoredTrip(trip_doc, travel_preferences, trip_data) ==
  [found             |-> TRUE,
   travelPreferences |-> travel_preferences,
   tripData          |-> trip_data,
   initialItinerary  |-> IF trip_doc.found THEN trip_doc.initialItinerary
                         ELSE NoItinerary,
   enhancedItinerary |-> IF trip_doc.found THEN trip_doc.enhancedItinerary
                         ELSE NoItinerary]

SyncedNoDestination == "Trip synced, but destination not found for recommendations."
SyncedButFailed     == "Trip synced, but enhanced recommendations failed."
SyncedAndGenerated  ==
  "Trip synced to MongoDB and enhanced recommendations generated successfully."

\* The try block of sync_trip, lines 46-111: the trip document it leaves
\* and the body it returns or the exception it raises.  ai_result is what
\* get_enhanced_recommendations answers on the document just stored.
SyncTripBody(trip_doc, firestore, fails, ai_result) ==
  IF ~firestore.user.exists
  THEN [trip |-> trip_doc, outcome |-> HttpException(404, "User not found")]
  ELSE IF ~firestore.trip.exists
  THEN [trip |-> trip_doc, outcome |-> HttpException(404, "Trip not found")]
  ELSE IF "trip_store" \in fails
  THEN [trip |-> trip_doc, outcome |-> HttpException(0, "trip_requests unavailable")]
  ELSE
    LET stored == StoredTrip(trip_doc, firestore.user.travelPreferences,
                             firestore.trip.data)
        destination == firestore.trip.data.destination
        parsed_destination == ParseDestinationInput(destination, fails)
    IN  IF destination = <<>>
        THEN [trip |-> stored, outcome |-> Ok([message |-> SyncedNoDestination])]
        ELSE IF ai_result.status = "error"
        THEN [trip    |-> stored,
              outcome |-> Ok([message  |-> SyncedButFailed,
                              ai_error |-> ai_result.message])]
        ELSE [trip    |-> [stored EXCEPT !.enhancedItinerary = ai_result],
              outcome |-> Ok([message |-> SyncedAndGenerated,
                              destination_info |->
                                [original_input |-> destination,
                                 parsed_type    |-> parsed_destination.input_type,
                                 parsed_value   |-> parsed_destination.parsed_value,
                                 confidence     |-> parsed_destination.confidence]])]

\* The handler: its body under the except clause of lines 113-114.
SyncTripHandler(done) ==
  /\ trip' = done.trip
  /\ result' = ExceptException(done.outcome)

\* POST /sync_trip, with Firestore as it is when the request comes.
SyncTrip(firestore, fails, response) ==
  /\ call' = [op |-> "sync_trip", firestore |-> firestore, fails |-> fails,
              response |-> response]
  /\ SyncTripHandler(
       SyncTripBody(trip, firestore, fails,
                    GetEnhancedRecommendations(
                      StoredTrip(trip, firestore.user.travelPreferences,
                                 firestore.trip.data),
                      firestore.trip.data.destination, fails, response)))
  /\ UNCHANGED <<catalog, seen>>

\* A variant that prefers the initial itinerary.
ItineraryOf_InitialFirst(trip_doc) ==
  IF trip_doc.initialItinerary # NoItinerary THEN trip_doc.initialItinerary
  ELSE trip_doc.enhancedItinerary

\* trip_doc.get("enhancedItinerary") or trip_doc.get("initialItinerary")
ItineraryOf(trip_doc) ==
  IF trip_doc.enhancedItinerary # NoItinerary THEN trip_doc.enhancedItinerary
  ELSE trip_doc.initialItinerary

\* POST /get_itinerary: no try block, its 404s are delivered.
GetItineraryResponse(trip_doc) ==
  IF ~trip_doc.found THEN HttpException(404, "Trip not found")
  ELSE IF ItineraryOf(trip_doc) = NoItinerary
  THEN HttpException(404, "Itinerary not found for this trip")
  ELSE Ok([status |-> "success", data |-> ItineraryOf(trip_doc)])

GetItinerary ==
  /\ call' = [op |-> "get_itinerary"]
  /\ result' = GetItineraryResponse(trip)
  /\ UNCHANGED <<catalog, trip, seen>>

\* The try block of the /get_enhanced_recommendations handler, lines
\* 162-172.
EndpointBody(agent_result) ==
  IF agent_result.status = "error" THEN HttpException(400, agent_result.message)
  ELSE Ok([status |-> "success", data |-> agent_result])

\* POST /get_enhanced_recommendations.
GetEnhancedRecommendationsEndpoint(query, fails, response) ==
  /\ call' = [op |-> "endpoint", query |-> query, fails |-> fails,
              response |-> response]
  /\ result' = ExceptException(
                 EndpointBody(GetEnhancedRecommendations(trip, query, fails, response)))
  /\ UNCHANGED <<catalog, trip, seen>>

\* One city with two places that the scorer accepts, names in lower case.
SyncPlaces ==
  <<[Place(<<"z">>, 35) EXCEPT !.type = "fort", !.cost = <<500>>],
    [Place(<<"t", "x">>, 45) EXCEPT !.type = "temple", !.tags = {"famous"}]>>

SyncCatalogs ==
  { <<>>, <<Doc(<<"a", "b">>, <<"r", "j">>, SyncPlaces, 45, {}, AbsentWord)>> }

SyncPrefs == Prefs("sightseeing", "outdoor", AbsentWord, AbsentWord, "culture enthusiast")

\* Firestore at a request: no user, no trip, a trip to the city, a trip
\* without destination, a trip to a place the catalog does not know.
SyncFirestores ==
  { Firestore(NoDocument, NoDocument),
    Firestore(UserDocument(SyncPrefs), NoDocument),
    Firestore(UserDocument(SyncPrefs),
              TripDocument(<<"a", "b">>, <<10000>>, <<1>>, <<2>>)),
    Firestore(UserDocument(SyncPrefs), TripDocument(<<>>, <<20000>>, <<7>>, <<1>>)),
    Firestore(UserDocument(SyncPrefs), TripDocument(<<"q">>, <<10000>>, <<1>>, <<2>>)) }

SyncFails == { {}, {"city_doc"}, {"trip_store"} }

SyncResponse == LlmResponse(ArrayOfCities(<<>>), FALSE)

\* An itinerary of generate_initial_recommendations, stored before.
StoredInitialItinerary == [cities |-> <<>>]

InitSync ==
  /\ catalog \in SyncCatalogs
  /\ trip \in { NoTrip,
                [StoredTrip(NoTrip, SyncPrefs,
                            TripDocument(<<"q">>, <<10000>>, <<1>>, <<2>>).data)
                   EXCEPT !.initialItinerary = StoredInitialItinerary] }
  /\ call = NoCall
  /\ result = NoResult
  /\ seen = NothingSeen

NextSync ==
  \/ /\ call = NoCall
     /\ \E firestore \in SyncFirestores, fails \in SyncFails :
          SyncTrip(firestore, fails, SyncResponse)
  \/ /\ call = NoCall
     /\ GetItinerary
  \/ /\ call = NoCall
     /\ \E query \in {<<"a", "b">>, <<"q">>}, fails \in {{}, {"city_doc"}} :
          GetEnhancedRecommendationsEndpoint(query, fails, SyncResponse)
  \/ Deliver

SpecSync == InitSync /\ [][NextSync]_vars

\* The sync_trip call in progress answered with its success message.
SyncSucceeded ==
  /\ call.op = "sync_trip"
  /\ "body" \in DOMAIN result
  /\ result.body.message = SyncedAndGenerated

\* C23: for a trip stored by sync_trip, the profile read back through
\* get_user_profile carries the budget, start date and number of travellers
\* of the trip as stored, and every item of the personalized bucket of the
\* city result carries its score fields: the ranking did not fall back to
\* the unscored list.
C23_SyncedTripIsScored ==
  (SyncSucceeded /\ trip.enhancedItinerary.input_type = "city") =>
    /\ GetUserProfile(trip).budget = trip.tripData.budget
    /\ GetUserProfile(trip).start_date = trip.tripData.start_date
    /\ GetUserProfile(trip).num_of_travellers = trip.tripData.num_travelers
    /\ \A k \in 1..Len(trip.enhancedItinerary.recommendations.places.personalized) :
         IsScored(trip.enhancedItinerary.recommendations.places.personalized[k])

\* C24: on its normal path _get_personalized_recommendations returns at
\* most `limit` entries, each an item of the input with the four score
\* fields added, no input item used twice, and final_score the product of
\* the item's score and the two multipliers of the entry, rounded to three
\* decimals; when scoring raises it returns the first `limit` items of the
\* input as they are.
C24_ScoredSelectionOrFallback ==
  (call.op = "personalize") =>
    IF PersonalizationRaises(call.items, call.user_data)
    THEN result.items = Take(call.items, call.limit)
    ELSE /\ Len(result.items) <= call.limit
         /\ Origins(result.items, call.items) # {}
         /\ \A k \in 1..Len(result.items) :
              LET entry == result.items[k]
                  score == EnhancedPersonalizationScore(
                             Unscored(entry), call.user_data.personality_answers).value
              IN  /\ IsScored(entry)
                  /\ entry.personalization_score = Round3(score * 100)
                  /\ entry.final_score =
                       Round3(score * entry.seasonal_multiplier * entry.budget_multiplier)

\* A ranking of three items cut to two scored entries, one of them with a
\* budget multiplier other than 1.0.
C24_Witness ==
  /\ call.op = "personalize"
  /\ Len(call.items) = 3
  /\ call.limit = 2
  /\ Len(result.items) = 2
  /\ \A k \in 1..2 : IsScored(result.items[k]) /\ result.items[k].final_score > 0
  /\ \E k \in 1..2 : result.items[k].budget_multiplier # 10

\* The names the LLM answered with in the call in progress.
ShortlistNames ==
  LET shortlist == ShortlistOf(ParseLlmResponse(call.response))
  IN  { shortlist[i] : i \in 1..Len(shortlist) }

\* C25: every city of the ai_recommended bucket has the name of a catalog
\* city of the requested state and the rating, tags and type of that
\* catalog record (with the defaults of an absent rating or type); the
\* bucket names the shortlisted cities that the state holds and no other,
\* so a shortlist entry naming no catalog city is dropped.
C25_AiBucketFromCatalog ==
  (/\ call.op = "enhanced"
   /\ "recommendations" \in DOMAIN result
   /\ result.input_type = "state")
  => LET ai_recommended == result.recommendations.cities.ai_recommended
         state_docs     == CitiesOfState(result.parsed_input.state)
     IN  /\ \A k \in 1..Len(ai_recommended) :
              \E i \in 1..Len(state_docs) :
                /\ state_docs[i].city = ai_recommended[k].name
                /\ ai_recommended[k] = CityInfo(state_docs[i], DefaultRating)
         /\ { ai_recommended[k].name : k \in 1..Len(ai_recommended) }
              = ShortlistNames \cap { state_docs[i].city : i \in 1..Len(state_docs) }

\* A state result whose bucket holds a catalog city, from a shortlist that
\* also named a city the state does not hold.
C25_Witness ==
  /\ call.op = "enhanced"
  /\ "recommendations" \in DOMAIN result
  /\ result.input_type = "state"
  /\ Len(result.recommendations.cities.ai_recommended) = 1
  /\ Cardinality(ShortlistNames) = 2

\* C26: the handlers deliver the status they raise: sync_trip answers 404
\* "User not found" without the Firestore user and 404 "Trip not found"
\* without the Firestore trip, /get_enhanced_recommendations answers 400
\* when the agent returns status error, and 500 is the answer to an
\* unexpected exception only (here: trip_requests unavailable).
C26_HandlersDeliverStatus ==
  /\ (call.op = "sync_trip" /\ ~call.firestore.user.exists)
       => result = HttpException(404, "User not found")
  /\ (call.op = "sync_trip" /\ call.firestore.user.exists
                            /\ ~call.firestore.trip.exists)
       => result = HttpException(404, "Trip not found")
  /\ (call.op = "endpoint"
        /\ GetEnhancedRecommendations(trip, call.query, call.fails,
                                      call.response).status = "error")
       => result.status_code = 400
  /\ (call.op \in {"sync_trip", "endpoint", "get_itinerary"}
        /\ result.status_code = 500)
       => (call.op = "sync_trip" /\ "trip_store" \in call.fails)

\* The last response delivered was sync_trip's, with this message.
LastSyncSaid(message) ==
  /\ seen.call.op = "sync_trip"
  /\ "body" \in DOMAIN seen.result
  /\ seen.result.body.message = message

\* C27: a get_itinerary that follows a sync_trip which returned its success
\* message answers status success with the recommendations that
\* get_enhanced_recommendations gave that sync_trip for its destination;
\* a stored enhanced itinerary is returned whether or not an initial one
\* is stored too; without a trip document, or with neither itinerary, the
\* answer is 404.
C27_ItineraryAfterSync ==
  (call.op = "get_itinerary") =>
    /\ LastSyncSaid(SyncedAndGenerated) =>
         result = Ok([status |-> "success",
                      data   |-> GetEnhancedRecommendations(
                                   trip, seen.call.firestore.trip.data.destination,
                                   seen.call.fails, seen.call.response)])
    /\ (trip.found /\ trip.enhancedItinerary # NoItinerary) =>
         result = Ok([status |-> "success", data |-> trip.enhancedItinerary])
    /\ ~trip.found => result = HttpException(404, "Trip not found")
    /\ (/\ trip.found
        /\ trip.enhancedItinerary = NoItinerary
        /\ trip.initialItinerary = NoItinerary) =>
         result = HttpException(404, "Itinerary not found for this trip")

\* get_itinerary right after a successful sync_trip, on a trip document that
\* also holds an initial itinerary: the answer is the city result.
C27_Witness ==
  /\ call.op = "get_itinerary"
  /\ LastSyncSaid(SyncedAndGenerated)
  /\ trip.initialItinerary # NoItinerary
  /\ result.status_code = 200
  /\ result.body.data.input_type = "city"

\* C28: the itinerary get_itinerary returns was computed from the trip data
\* of the most recent sync_trip: after a sync_trip that stored trip data
\* and ended without destination or with failed recommendations, an
\* enhanced itinerary returned is one for the destination now stored.
C28_ItineraryOfLatestSync ==
  (/\ call.op = "get_itinerary"
   /\ LastSyncSaid(SyncedNoDestination) \/ LastSyncSaid(SyncedButFailed)
   /\ "body" \in DOMAIN result
   /\ result.body.data = trip.enhancedItinerary)
  => result.body.data.parsed_input.parsed_value
       = Lower(Strip(trip.tripData.destination))

\* C29: a state result of confidence 0.8 names a state of the catalog, up to
\* letter case, whether the query matched the state's name exactly or as a
\* part of it.
C29_StateResultNamesCatalogState ==
  (/\ call.op = "parse"
   /\ "input_type" \in DOMAIN result
   /\ result.input_type = "state"
   /\ result.confidence = 8)
  => \E i \in DOMAIN catalog : Lower(catalog[i].state) = Lower(result.state)

\* C30: the season _get_season gives a month is one _seasonal_optimization
\* counts the month in: for a best_time_to_visit that is that season's name
\* and a start date in the month, the multiplier is 1.3.
C30_SeasonTablesAgree ==
  (call.op = "get_season") =>
    SeasonalOptimization([best_time_to_visit |-> result.value],
                         <<call.month>>) = 13

=============================================================================
